---- MODULE Spec2Model ----
(***************************************************************************)
(* Sync-Watch server: the single shared room (RoomManager), the socket     *)
(* command handlers (SocketHandler) and the password helpers of            *)
(* SecurityManager, as wired by startServer.                               *)
(*                                                                         *)
(* A socket is a number 1..NumConns; sockets connect in the order of their *)
(* numbers (socket ids are opaque and never reused, so this loses no       *)
(* behaviour).  Each handler is one atomic action (node runs a handler to  *)
(* completion).  `last` records the command handled by the latest step and *)
(* `out` the events that handler emitted, in emission order.               *)
(***************************************************************************)
EXTENDS Integers, Sequences, FiniteSets, TLC

\* ------------------------------------------------------------ bounds ----
NumConns   == 3      \* sockets that ever connect
MaxRooms   == 2      \* create-room commands handled (room ids 1..MaxRooms)
MaxTime    == 1      \* currentTime values 0..MaxTime in video-control
MaxJobs    == 1      \* platform load-video requests accepted (resolver runs)
MaxMsgs    == 2      \* chat-message and typing commands relayed
MaxFormats == 2      \* entries of videoInfo.formats
FileSize   == 12     \* bytes of the local video file
MaxTicks   == 4      \* advances of the clock
MaxStarts  == 3      \* startServer calls

\* ------------------------------------------------- program constants ----
DefaultMaxUsers == 10
MinNameLen      == 2
MaxNameLen      == 20
WindowMs        == 60000   \* socketRateLimiter: attempts older than this are dropped
MaxAttempts     == 10      \* socketRateLimiter: attempts accepted within the window
ExpiresInSec    == 86400   \* generateRoomToken: expiresIn '24h', in seconds

Conns   == 1..NumConns
RoomIds == 1..MaxRooms

NoAdmin == 0                      \* room.admin = null
NoToken == [exists |-> FALSE]     \* no token
NoRes   == [status |-> 0]         \* nothing answered yet
NoRoom  == [exists |-> FALSE]     \* roomManager.room = null
NoInstance == 0                   \* serverInstance = null
Null    == "null"                 \* a null / undefined string-valued field

VARIABLES
  room,     \* roomManager.room: NoRoom or the room record
  nrooms,   \* rooms created so far
  nconn,    \* sockets 1..nconn have connected
  closed,   \* the sockets that have disconnected
  sio,      \* socket.io rooms: sio[s] = the room ids socket s has join()ed
  last,     \* the command handled by the latest step: [cmd, s]
  out,      \* the events the latest handler emitted: Seq([to, ev, data])
  jobs,     \* the processWithYtDlp calls that still have a process to hear from:
            \*   Seq([socket, roomId, data, commandIndex, procs])
  nmsg,     \* chat-message and typing commands relayed so far
  wire,     \* wire[c]: the chat and typing events in flight to socket c, oldest first
  recv,     \* recv[c]: the chat and typing events socket c's client has received
  now,      \* Date.now(), in milliseconds
  connectionAttempts,
            \* socketRateLimiter's Map: address -> the times of its accepted attempts
  token,    \* the room token a client holds: NoToken or [payload, signature]
  res,      \* the result of the latest HTTP request, SecurityManager call or
            \*   IPC request
  appState, \* main.js appState: [mode, isServerRunning, isStartingServer, serverInfo]
  serverInstance,
            \* main.js serverInstance: NoInstance or the index of a startServer call
  servers,  \* the startServer calls so far: Seq([st, port]), st one of
            \*   "starting", "listening", "failed", "closed"
  exited    \* the main process has quit

vars == <<room, nrooms, nconn, closed, sio, last, out, jobs, nmsg, wire, recv,
          now, connectionAttempts, token, res,
          appState, serverInstance, servers, exited>>

\* The state of the Electron main process; what the socket handlers never
\* touch, and what only they touch.
mainVars   == <<appState, serverInstance, servers, exited>>
offSocket  == <<now, connectionAttempts, token, res, mainVars>>
socketVars == <<room, nrooms, nconn, closed, sio, out, jobs, nmsg, wire, recv>>

Open == (1..nconn) \ closed

\* ------------------------------------------------------ input domains ---
\* SecurityManager.hashPassword: sha256(password + secretKey), hex.  The
\* digest is a string that differs from its input and is injective on the
\* inputs used here.
hashPassword(password) == "sha256(" \o password \o ")"

\* data.username: a well-formed name; and the names validateJoinRequest
\* rejects (missing, 1 character, 21 characters).
LongName == "abcdefghijklmnopqrstu"
Names    == {"al"}
AnyNames == {Null, "x", "al", LongName}

\* create-room payloads: <<password, privacy, maxUsers>> as the client's
\* form sends them ("" = no password or no privacy, 0 = no maxUsers).
RoomForms  == { <<"", "public", 0>>, <<"pw", "private", 2>>, <<"", "", 2>> }
CreateData == { [username |-> n, password |-> f[1], privacy |-> f[2],
                 maxUsers |-> f[3]] : n \in Names, f \in RoomForms }

\* join-room payloads; a client may send any string as password, the
\* stored digest included.
JoinPasswords == {"", "pw", hashPassword("pw")}
JoinData      == [username : Names, password : JoinPasswords, roomId : RoomIds]

\* video-control payloads: seek {currentTime}, play/pause {isPlaying,
\* currentTime}.
ControlData == {[currentTime |-> t] : t \in 0..MaxTime}
          \cup {[isPlaying |-> b, currentTime |-> t] : b \in BOOLEAN, t \in 0..MaxTime}

\* The payloads of SpecNames: any user name, one public room form.
CreateDataNames == { [username |-> n, password |-> "", privacy |-> "public",
                      maxUsers |-> 0] : n \in AnyNames }
JoinDataNames   == [username : AnyNames, password : {""}, roomId : RoomIds]
ControlDataNames == {[isPlaying |-> TRUE]}

\* --------------------------------------------------- SecurityManager ----
\* validateJoinRequest's username rule (never called by the handlers).
ValidUsername(username) ==
  ~(username = Null \/ Len(username) < MinNameLen \/ Len(username) > MaxNameLen)

\* verifyPassword(password, hash)
verifyPassword(password, hash) == hashPassword(password) = hash

\* generateSecureRoomId: randomBytes(6).toString('hex').toUpperCase().  A
\* string is the sequence of its characters here.
SecureIdBytes == 6
HexDigits == << "0", "1", "2", "3", "4", "5", "6", "7",
               "8", "9", "a", "b", "c", "d", "e", "f" >>
ToUpperCase(ch) ==
  CASE ch = "a" -> "A" [] ch = "b" -> "B" [] ch = "c" -> "C"
    [] ch = "d" -> "D" [] ch = "e" -> "E" [] ch = "f" -> "F"
    [] OTHER -> ch
ToHex(bytes) ==
  [i \in 1..(2 * Len(bytes)) |->
     LET b == bytes[(i + 1) \div 2]
     IN HexDigits[(IF i % 2 = 1 THEN b \div 16 ELSE b % 16) + 1]]
generateSecureRoomId(bytes) == [i \in DOMAIN ToHex(bytes) |-> ToUpperCase(ToHex(bytes)[i])]

\* ------------------------------------------------------- Map helpers ----
\* room.users is a JS Map: insertion-ordered, set() on a present key keeps
\* the key's position.
UserIdsOf(us) == {us[i].id : i \in DOMAIN us}
MapGet(us, k) == us[CHOOSE i \in DOMAIN us : us[i].id = k]
MapSetDrop(us, k, v) == us
MapSet(us, k, v) ==
  IF k \in UserIdsOf(us)
  THEN [i \in DOMAIN us |-> IF us[i].id = k THEN v ELSE us[i]]
  ELSE Append(us, v)
MapDelete(us, k) == SelectSeq(us, LAMBDA u : u.id # k)

\* ------------------------------------------------------- RoomManager ----
EmptyVideoState ==
  [videoUrl |-> Null, videoType |-> Null, currentTime |-> 0,
   isPlaying |-> FALSE, title |-> Null]

\* createRoom's stored password: hashed when non-empty (startServer always
\* passes a SecurityManager), else "".
StoredPassword(password) ==
  IF password # "" THEN hashPassword(password) ELSE ""

\* data.roomName || "My Room" and data.qualitySettings || null.
RoomName(data) ==
  IF "roomName" \in DOMAIN data /\ data.roomName # "" THEN data.roomName ELSE "My Room"
QualitySettings(data) ==
  IF "qualitySettings" \in DOMAIN data THEN data.qualitySettings ELSE Null

createRoomKeepUsers(data, id) ==
  [id         |-> id,
   password   |-> StoredPassword(data.password),
   privacy    |-> IF data.privacy # "" THEN data.privacy ELSE "private",
   maxUsers   |-> IF data.maxUsers # 0 THEN data.maxUsers ELSE DefaultMaxUsers,
   admin      |-> NoAdmin,
   users      |-> IF room # NoRoom THEN room.users ELSE << >>,
   videoState |-> EmptyVideoState,
   name       |-> RoomName(data),
   qualitySettings |-> QualitySettings(data)]
createRoom(data, id) ==
  [id         |-> id,
   password   |-> StoredPassword(data.password),
   privacy    |-> IF data.privacy # "" THEN data.privacy ELSE "private",
   maxUsers   |-> IF data.maxUsers # 0 THEN data.maxUsers ELSE DefaultMaxUsers,
   admin      |-> NoAdmin,
   users      |-> << >>,
   videoState |-> EmptyVideoState,
   name       |-> RoomName(data),
   qualitySettings |-> QualitySettings(data)]

\* generateRoomId: 8 characters chars.charAt(Math.floor(Math.random() *
\* chars.length)); randoms[i] is the i-th Math.random(), in hundredths.
RoomIdLen == 8
chars == << "A", "B", "C", "D", "E", "F", "G", "H", "I", "J", "K", "L", "M",
           "N", "P", "Q", "R", "S", "T", "U", "V", "W", "X", "Y", "Z",
           "1", "2", "3", "4", "5", "6", "7", "8", "9" >>
generateRoomId(randoms) ==
  [i \in 1..RoomIdLen |-> chars[((randoms[i] * Len(chars)) \div 100) + 1]]

\* createRoom's roomId: from the SecurityManager if the RoomManager has one.
RoomIdOf(securityManager, bytes, randoms) ==
  IF securityManager THEN generateSecureRoomId(bytes) ELSE generateRoomId(randoms)

\* addUser: the user object it builds, and the room after it.
NewUser(r, socketId, name) ==
  [id |-> socketId, name |-> name, isAdmin |-> Len(r.users) = 0]

addUser(r, socketId, name) ==
  LET user == NewUser(r, socketId, name) IN
  [r EXCEPT !.admin = IF user.isAdmin THEN socketId ELSE @,
            !.users = MapSet(@, socketId, user)]

\* removeUser: the room after it, and whether it returns {newAdmin}.
Promotes(r, socketId) ==
  r.admin = socketId /\ Len(MapDelete(r.users, socketId)) > 0

removeUserNoFlag(r, socketId) ==
  LET us == MapDelete(r.users, socketId) IN
  IF Promotes(r, socketId)
  THEN [r EXCEPT !.admin = us[1].id, !.users = us]
  ELSE [r EXCEPT !.users = us]
removeUserLast(r, socketId) ==
  LET us == MapDelete(r.users, socketId) IN
  IF Promotes(r, socketId)
  THEN [r EXCEPT !.admin = us[Len(us)].id,
                 !.users = [us EXCEPT ![Len(us)].isAdmin = TRUE]]
  ELSE [r EXCEPT !.users = us]
removeUser(r, socketId) ==
  LET us == MapDelete(r.users, socketId) IN
  IF Promotes(r, socketId)
  THEN [r EXCEPT !.admin = us[1].id,
                 !.users = [us EXCEPT ![1].isAdmin = TRUE]]
  ELSE [r EXCEPT !.users = us]

\* updateVideoState: { ...videoState, ...newState }
replaceVideoState(videoState, newState) == newState
updateVideoState(videoState, newState) ==
  [f \in DOMAIN videoState \cup DOMAIN newState |->
     IF f \in DOMAIN newState THEN newState[f] ELSE videoState[f]]

\* RoomManager.updateVideoState(newState) on roomManager.room = r.
UpdateRoomVideoState(r, newState) ==
  IF r # NoRoom THEN [r EXCEPT !.videoState = updateVideoState(@, newState)]
  ELSE r

\* ----------------------------------------------------- socket.io -------
\* io.to(roomId): every connected socket that joined roomId;
\* socket.to(roomId): the same without the emitting socket.
IoTo(roomId, sockets, rooms) == {c \in sockets : roomId \in rooms[c]}
SocketToAll(s, roomId, sockets, rooms) == IoTo(roomId, sockets, rooms)
SocketTo(s, roomId, sockets, rooms) == IoTo(roomId, sockets, rooms) \ {s}

Emit(to, ev, data) == [to |-> to, ev |-> ev, data |-> data]
Error(s, msg)      == Emit({s}, "error", msg)

\* serverInfo = null, in the shape of a server info (no port is 0).
NoServerInfo == [port |-> 0]
\* main.js appState as the module is loaded.
NoAppState ==
  [mode |-> Null, isServerRunning |-> FALSE, isStartingServer |-> FALSE,
   serverInfo |-> NoServerInfo]

HasRoom    == room # NoRoom
UserIds    == IF HasRoom THEN UserIdsOf(room.users) ELSE {}

Init ==
  /\ room = NoRoom
  /\ nrooms = 0
  /\ nconn = 0
  /\ closed = {}
  /\ sio = [c \in Conns |-> {}]
  /\ last = [cmd |-> "start", s |-> 0]
  /\ out = << >>
  /\ jobs = << >>
  /\ nmsg = 0
  /\ wire = [c \in Conns |-> << >>]
  /\ recv = [c \in Conns |-> << >>]
  /\ now = 0
  /\ connectionAttempts = << >>
  /\ token = NoToken
  /\ res = NoRes
  /\ appState = NoAppState
  /\ serverInstance = NoInstance
  /\ servers = << >>
  /\ exited = FALSE

\* io.on("connection"): the next socket connects.
Connect ==
  /\ nconn < NumConns
  /\ nconn' = nconn + 1
  /\ last' = [cmd |-> "connection", s |-> nconn + 1]
  /\ out' = << >>
  /\ UNCHANGED <<room, nrooms, closed, sio, jobs, nmsg, wire, recv>>
  /\ UNCHANGED offSocket

\* The room ids a running resolver call still holds: processWithYtDlp emits
\* video-loaded to the id of the room it was started for.
Running(job)  == \E p \in DOMAIN job.procs : job.procs[p].st # "closed"
CapturedIds   == {jobs[j].roomId : j \in {i \in DOMAIN jobs : Running(jobs[i])}}

\* handleCreateRoom.  generateSecureRoomId draws 6 random bytes; the model
\* gives each room an id no earlier room had (ids 1, 2, ...).  The handlers
\* emit to the live room's id, and a resolver call to the id it captured, so
\* what a socket joined under any other id can never be read again and is
\* dropped from sio.  handleCreateRoomAs is the handler with the id createRoom
\* generates as a parameter.
handleCreateRoomAs(s, data, id) ==
  /\ s \in Open
  /\ nrooms < MaxRooms
  /\ nrooms' = nrooms + 1
  /\ LET r0   == createRoom(data, id)
       user == NewUser(r0, s, data.username)
       r1   == addUser(r0, s, data.username)
     IN /\ room' = r1
        /\ sio' = [c \in Conns |->
                     (IF c = s THEN sio[c] \cup {id} ELSE sio[c])
                       \cap ({id} \cup CapturedIds)]
        /\ out' = << Emit({s}, "room-created",
                          [roomId |-> id, isAdmin |-> user.isAdmin,
                           maxUsers |-> r1.maxUsers, users |-> r1.users]) >>
  /\ last' = [cmd |-> "create-room", s |-> s]
  /\ UNCHANGED <<nconn, closed, jobs, nmsg, wire, recv>>
  /\ UNCHANGED offSocket

handleCreateRoom(s, data) == handleCreateRoomAs(s, data, nrooms + 1)

\* handleJoinRoom's early returns: the error it answers with, "" if none.
JoinErrorNoCapacity(data) ==
  IF room = NoRoom THEN "Room not found"
  ELSE IF room.privacy = "private" /\ room.password # data.password
       THEN "Wrong password"
  ELSE ""
JoinError(data) ==
  IF room = NoRoom THEN "Room not found"
  ELSE IF room.privacy = "private" /\ room.password # data.password
       THEN "Wrong password"
  ELSE IF Len(room.users) >= room.maxUsers THEN "Room is full"
  ELSE ""

handleJoinRoom(s, data) ==
  /\ s \in Open
  /\ last' = [cmd |-> "join-room", s |-> s]
  /\ IF JoinError(data) # ""
     THEN /\ out' = << Error(s, JoinError(data)) >>
          /\ UNCHANGED <<room, sio>>
     ELSE LET user == NewUser(room, s, data.username)
              r1   == addUser(room, s, data.username)
              rms  == [sio EXCEPT ![s] = @ \cup {room.id}]
          IN /\ room' = r1
             /\ sio' = rms
             /\ out' = << Emit({s}, "room-joined",
                               [roomId |-> r1.id, isAdmin |-> user.isAdmin,
                                videoState |-> r1.videoState, users |-> r1.users]),
                          Emit(SocketTo(s, r1.id, Open, rms), "user-joined",
                               [user |-> user, users |-> r1.users]) >>
  /\ UNCHANGED <<nrooms, nconn, closed, jobs, nmsg, wire, recv>>
  /\ UNCHANGED offSocket

\* The admin guard of handleVideoControl, handleLoadVideo and
\* handleClearVideo: !room || room.admin !== socket.id.
MayControlAnyone(s) == room # NoRoom
MayControlAnyMember(s) == room # NoRoom /\ s \in UserIdsOf(room.users)
MayControl(s) == room # NoRoom /\ room.admin = s

\* handleVideoControlOn is the handler run for any socket that has connected;
\* socket.io runs it for a connected one.
handleVideoControlOn(s, data) ==
  /\ s \in 1..nconn
  /\ last' = [cmd |-> "video-control", s |-> s]
  /\ IF ~MayControl(s)
     THEN /\ out' = << >>
          /\ UNCHANGED room
     ELSE /\ room' = [room EXCEPT !.videoState = updateVideoState(@, data)]
          /\ out' = << Emit(SocketTo(s, room.id, Open, sio), "video-control", data) >>
  /\ UNCHANGED <<nrooms, nconn, closed, sio, jobs, nmsg, wire, recv>>
  /\ UNCHANGED offSocket

handleVideoControl(s, data) == s \in Open /\ handleVideoControlOn(s, data)

\* A video-control that the connection sent before it closed, handled after
\* its disconnect.
lateVideoControl(s, data) == s \in closed /\ handleVideoControlOn(s, data)

\* handleDisconnect; socket.io has removed the socket from its rooms, and
\* what was in flight on the connection is gone with it.
handleDisconnect(s) ==
  /\ s \in Open
  /\ closed' = closed \cup {s}
  /\ sio' = [sio EXCEPT ![s] = {}]
  /\ wire' = [wire EXCEPT ![s] = << >>]
  /\ recv' = [recv EXCEPT ![s] = << >>]
  /\ last' = [cmd |-> "disconnect", s |-> s]
  /\ IF room = NoRoom
     THEN /\ out' = << >>
          /\ UNCHANGED room
     ELSE LET r1 == removeUser(room, s)
              notification ==
                IF Promotes(room, s)
                THEN [users |-> r1.users, newAdmin |-> MapGet(r1.users, r1.admin)]
                ELSE [users |-> r1.users]
          IN /\ room' = r1
             /\ out' = IF Len(r1.users) > 0
                       THEN << Emit(SocketTo(s, r1.id, Open \ {s}, sio'),
                                    "user-left", notification) >>
                       ELSE << >>
  /\ UNCHANGED <<nrooms, nconn, jobs, nmsg>>
  /\ UNCHANGED offSocket

\* ------------------------------------------------ load / clear video ---
\* load-video payloads as VideoManager sends them: a platform URL and a
\* local file chosen in Electron.
LoadData ==
  { [url |-> "https://youtu.be/v", type |-> "platform", title |-> "v", usesYtDlp |-> TRUE],
    [url |-> "/movies/m.mp4", type |-> "file", title |-> "m.mp4", usesYtDlp |-> FALSE] }

\* String.startsWith over the URLs above.
UrlRests == {"movies/m.mp4", "//youtu.be/v"}
StartsWith(str, prefix) == \E rest \in UrlRests : str = prefix \o rest

\* a || b on string-valued fields.
Or(a, b) == IF a # Null /\ a # "" THEN a ELSE b

\* socket.emit: to the socket itself, if it is still connected.
SocketEmitAll(s, ev, data) == Emit(Open, ev, data)
SocketEmitNobody(s, ev, data) == Emit({}, ev, data)
SocketEmit(s, ev, data) == Emit({s} \cap Open, ev, data)

\* handleLoadVideo's branches.
IsPlatform(data)  == data.usesYtDlp \/ data.type = "platform"
IsLocalFile(data) ==
  (data.type = "file" /\ StartsWith(data.url, "/")) \/ StartsWith(data.url, "C:")

StreamUrl(roomId) == "/stream/" \o ToString(roomId) \o "/video"

FileState(r, data) ==
  [videoUrl |-> StreamUrl(r.id), localPath |-> data.url, videoType |-> "stream",
   currentTime |-> 0, isPlaying |-> FALSE, title |-> Or(data.title, "Video")]

UrlState(data) ==
  [videoUrl |-> data.url, videoType |-> Or(data.type, "url"),
   currentTime |-> 0, isPlaying |-> FALSE, title |-> Or(data.title, "Video")]

\* processWithYtDlp: the binaries it tries, in order.
commands == <<"yt-dlp", "youtube-dl">>

NotInstalledMsg == "yt-dlp is not installed. Please install yt-dlp to stream from platforms."
FetchFailedMsg  == "Failed to fetch video: Unknown error"
ParseFailedMsg  == "Failed to process video information"

\* What a resolver process writes to stdout: text that is not JSON, the JSON
\* value null, or a JSON object with the video's information.
Outputs ==
  { [kind |-> "garbage"], [kind |-> "null"],
    [kind |-> "object", title |-> "T", url |-> "https://cdn/v.mp4",
     webpage_url |-> "https://youtu.be/v",
     duration |-> 60, thumbnail |-> Null, uploader |-> Null, description |-> Null] }

\* videoInfo.formats: up to MaxFormats entries, each with or without a video
\* codec, an audio codec, the mp4 container and a url; the url of entry i, if
\* it has one, is FormatUrl(i).
FormatUrl(i) == "https://cdn/f" \o ToString(i)
FormatKinds ==
  [vcodec : {"none", "avc1"}, acodec : {"none", "mp4a"}, ext : {"mp4", "webm"},
   hasUrl : BOOLEAN]
FormatLists ==
  UNION { { [i \in 1..n |->
              [vcodec |-> k[i].vcodec, acodec |-> k[i].acodec, ext |-> k[i].ext,
               url |-> IF k[i].hasUrl THEN FormatUrl(i) ELSE Null]] :
            k \in [1..n -> FormatKinds] } : n \in 0..MaxFormats }

\* Resolver output with a formats list, and without one; the entry found by
\* the resolver has no top-level url, only the page's.
FormatOutputs ==
  { [kind |-> "object", title |-> "T", url |-> Null,
     webpage_url |-> "https://youtu.be/v", formats |-> fs,
     duration |-> 60, thumbnail |-> Null, uploader |-> Null, description |-> Null] :
    fs \in FormatLists }
  \cup { o \in Outputs : o.kind = "object" }

\* formats.find(test): the index of the first entry that passes, 0 if none.
Find(found) ==
  IF found = {} THEN 0 ELSE CHOOSE i \in found : \A k \in found : i <= k

\* The two tests of the format selection.
AnyVideo(f) == f.vcodec # "none"
VideoAudioMp4(f) == f.vcodec # "none" /\ f.acodec # "none" /\ f.ext = "mp4"
FirstTestLoose(f) == f.vcodec # "none"
BestTest(f) == VideoAudioMp4(f)

\* bestFormat, as an index of formats (0: undefined).
bestFormat(formats) ==
  LET first  == Find({i \in DOMAIN formats : BestTest(formats[i])})
      second == Find({i \in DOMAIN formats : AnyVideo(formats[i])})
  IN IF first # 0 THEN first ELSE second

\* streamUrl after the selection.
streamUrl(videoInfo) ==
  LET pageUrl == Or(videoInfo.url, videoInfo.webpage_url) IN
  IF "formats" \in DOMAIN videoInfo
  THEN LET best == bestFormat(videoInfo.formats)
       IN IF best # 0 /\ videoInfo.formats[best].url # Null
          THEN videoInfo.formats[best].url
          ELSE pageUrl
  ELSE pageUrl

\* JSON.parse(jsonOutput) or the read of videoInfo.title throws.
ParseFails(output) == output.kind \in {"garbage", "null"}
GoodOutputs == {o \in Outputs : ~ParseFails(o)}

\* The exit codes the close listener sees: 0, a failure, and the negative
\* errno of a spawn that failed (the process never started).
ExitOk      == 0
ExitFailure == 1
ExitNoEntry == -2

ResolvedState(data, videoInfo) ==
  [videoUrl |-> streamUrl(videoInfo), videoType |-> "stream", originalUrl |-> data.url,
   currentTime |-> 0, isPlaying |-> FALSE,
   title |-> Or(videoInfo.title, Or(data.title, "Video")),
   duration |-> videoInfo.duration, thumbnail |-> videoInfo.thumbnail,
   uploader |-> videoInfo.uploader, description |-> videoInfo.description]

\* tryCommand: the job after it and the events it emits.
NewProc(cmd) == [cmd |-> cmd, st |-> "running"]
tryCommand(job) ==
  IF job.commandIndex >= Len(commands)
  THEN [job |-> job, out |-> << SocketEmit(job.socket, "error", NotInstalledMsg) >>]
  ELSE [job |-> [job EXCEPT !.procs = Append(@, NewProc(commands[job.commandIndex + 1]))],
        out |-> << >>]

\* The calls after call j has become `job`: a call none of whose processes
\* can report any more has no listener left and is forgotten.
Settle(j, job) ==
  IF Running(job) THEN [jobs EXCEPT ![j] = job]
  ELSE [i \in 1..(Len(jobs) - 1) |-> IF i < j THEN jobs[i] ELSE jobs[i + 1]]

\* commandIndex++ in the listeners.
SameIndex(commandIndex) == commandIndex
NextIndex(commandIndex) == commandIndex + 1

handleLoadVideo(s, data) ==
  /\ s \in Open
  /\ (MayControl(s) /\ IsPlatform(data)) => Len(jobs) < MaxJobs
  /\ last' = [cmd |-> "load-video", s |-> s]
  /\ IF ~MayControl(s)
     THEN /\ out' = << Error(s, "Only admin can load videos") >>
          /\ UNCHANGED <<room, jobs>>
     ELSE IF IsPlatform(data)
     THEN LET t == tryCommand([socket |-> s, roomId |-> room.id, data |-> data,
                               commandIndex |-> 0, procs |-> << >>])
          IN /\ jobs' = Append(jobs, t.job)
             /\ out' = << Emit({s}, "processing-video",
                               [message |-> "Fetching video information..."]) >> \o t.out
             /\ UNCHANGED room
     ELSE LET videoState == IF IsLocalFile(data) THEN FileState(room, data)
                            ELSE UrlState(data)
          IN /\ room' = [room EXCEPT !.videoState = updateVideoState(@, videoState)]
             /\ out' = << Emit(IoTo(room.id, Open, sio), "video-loaded",
                               [videoState |-> videoState]) >>
             /\ UNCHANGED jobs
  /\ UNCHANGED <<nrooms, nconn, closed, sio, nmsg, wire, recv>>
  /\ UNCHANGED offSocket

\* updateVideoState(null): spreading null adds no field.
NullState == [f \in {} |-> Null]

handleClearVideo(s) ==
  /\ s \in Open
  /\ last' = [cmd |-> "clear-video", s |-> s]
  /\ IF ~MayControl(s)
     THEN /\ out' = << Error(s, "Only admin can clear videos") >>
          /\ UNCHANGED room
     ELSE /\ room' = [room EXCEPT !.videoState = updateVideoState(@, NullState)]
          /\ out' = << Emit(IoTo(room.id, Open, sio), "video-cleared", Null) >>
  /\ UNCHANGED <<nrooms, nconn, closed, sio, jobs, nmsg, wire, recv>>
  /\ UNCHANGED offSocket

\* ytdlp.on('error'): the binary of process p of job j could not be started.
\* last.ended tells whether the step left the call with no process to hear
\* from.
spawnError(j, p) ==
  /\ j \in DOMAIN jobs
  /\ p \in DOMAIN jobs[j].procs
  /\ jobs[j].procs[p].st = "running"
  /\ LET t == tryCommand([jobs[j] EXCEPT !.procs[p].st = "errored",
                                        !.commandIndex = NextIndex(@)])
     IN /\ jobs' = Settle(j, t.job)
        /\ out' = t.out
  /\ last' = [cmd |-> "spawn-error", s |-> jobs[j].socket, job |-> j, proc |-> p,
              ended |-> Len(jobs') < Len(jobs)]
  /\ UNCHANGED <<room, nrooms, nconn, closed, sio, nmsg, wire, recv>>
  /\ UNCHANGED offSocket

\* ytdlp.on('close'): process p of job j has ended with `code` and `output` on
\* stdout.  It fires for a process that ran, and after 'error' for one that
\* could not be started.
spawnClose(j, p, code, output) ==
  /\ j \in DOMAIN jobs
  /\ p \in DOMAIN jobs[j].procs
  /\ \/ jobs[j].procs[p].st = "running" /\ code \in {ExitOk, ExitFailure}
     \/ jobs[j].procs[p].st = "errored" /\ code = ExitNoEntry
  /\ LET job == [jobs[j] EXCEPT !.procs[p].st = "closed"]
     IN IF code # 0
        THEN IF job.commandIndex < Len(commands) - 1
             THEN LET t == tryCommand([job EXCEPT !.commandIndex = NextIndex(@)])
                  IN /\ jobs' = Settle(j, t.job)
                     /\ out' = t.out
                     /\ UNCHANGED room
             ELSE /\ jobs' = Settle(j, job)
                  /\ out' = << SocketEmit(job.socket, "error", FetchFailedMsg) >>
                  /\ UNCHANGED room
        ELSE IF ParseFails(output)
        THEN /\ jobs' = Settle(j, job)
             /\ out' = << SocketEmit(job.socket, "error", ParseFailedMsg) >>
             /\ UNCHANGED room
        ELSE LET videoState == ResolvedState(job.data, output)
             IN /\ jobs' = Settle(j, job)
                /\ room' = [room EXCEPT !.videoState = updateVideoState(@, videoState)]
                /\ out' = << Emit(IoTo(job.roomId, Open, sio), "video-loaded",
                                  [videoState |-> videoState]),
                             SocketEmit(job.socket, "video-processed",
                                        [message |-> "Video loaded successfully",
                                         title |-> output.title]) >>
  /\ last' = [cmd |-> "spawn-close", s |-> jobs[j].socket, job |-> j, proc |-> p,
              ended |-> Len(jobs') < Len(jobs)]
  /\ UNCHANGED <<nrooms, nconn, closed, sio, nmsg, wire, recv>>
  /\ UNCHANGED offSocket

\* -------------------------------------------------- chat and typing ---
\* The payloads ChatManager sends; the server reads data.message and
\* data.isTyping.
ChatData   == { [message |-> "hi"] }
TypingData == { [isTyping |-> TRUE, userName |-> "al"] }

\* emit: the event is written to the recipient's connection, behind what was
\* written to it before; the connection delivers in the order written.
SendFirst(queue, event) == << event >> \o queue
Send(queue, event) == Append(queue, event)

\* The wire after command n has emitted event ev to the sockets `to`.
Sent(to, n, ev) ==
  [c \in Conns |-> IF c \in to THEN Send(wire[c], [n |-> n, ev |-> ev]) ELSE wire[c]]

\* room.users.get(socket.id) is defined.
IsMember(s) == room # NoRoom /\ s \in UserIdsOf(room.users)

\* io.to(room.id) of handleChatMessage, socket.to(room.id) of handleTyping.
ChatRecipientsOthers(s) == SocketTo(s, room.id, Open, sio)
ChatRecipients(s)       == IoTo(room.id, Open, sio)
TypingRecipientsAll(s)  == IoTo(room.id, Open, sio)
TypingRecipients(s)     == SocketTo(s, room.id, Open, sio)

\* handleChatMessage.  uuidv4() gives each message an id no other message
\* has (ids 1, 2, ...); the timestamp is left out.
handleChatMessage(s, data) ==
  /\ s \in Open
  /\ IsMember(s) => nmsg < MaxMsgs
  /\ last' = [cmd |-> "chat-message", s |-> s]
  /\ IF ~IsMember(s)
     THEN /\ out' = << >>
          /\ UNCHANGED <<nmsg, wire>>
     ELSE LET user    == MapGet(room.users, s)
              message == [id |-> nmsg + 1, user |-> user.name,
                          message |-> data.message, isAdmin |-> user.isAdmin]
          IN /\ out' = << Emit(ChatRecipients(s), "chat-message", message) >>
             /\ wire' = Sent(ChatRecipients(s), nmsg + 1, "chat-message")
             /\ nmsg' = nmsg + 1
  /\ UNCHANGED <<room, nrooms, nconn, closed, sio, jobs, recv>>
  /\ UNCHANGED offSocket

handleTyping(s, data) ==
  /\ s \in Open
  /\ IsMember(s) => nmsg < MaxMsgs
  /\ last' = [cmd |-> "typing", s |-> s]
  /\ IF ~IsMember(s)
     THEN /\ out' = << >>
          /\ UNCHANGED <<nmsg, wire>>
     ELSE LET user == MapGet(room.users, s)
          IN /\ out' = << Emit(TypingRecipients(s), "typing",
                               [userId |-> s, userName |-> user.name,
                                isTyping |-> data.isTyping]) >>
             /\ wire' = Sent(TypingRecipients(s), nmsg + 1, "typing")
             /\ nmsg' = nmsg + 1
  /\ UNCHANGED <<room, nrooms, nconn, closed, sio, jobs, recv>>
  /\ UNCHANGED offSocket

\* The client of socket c receives the oldest event in flight to it.
Deliver(c) ==
  /\ c \in Open
  /\ wire[c] # << >>
  /\ recv' = [recv EXCEPT ![c] = Append(@, Head(wire[c]))]
  /\ wire' = [wire EXCEPT ![c] = Tail(@)]
  /\ last' = [cmd |-> "deliver", s |-> c]
  /\ out' = << >>
  /\ UNCHANGED <<room, nrooms, nconn, closed, sio, jobs, nmsg>>
  /\ UNCHANGED offSocket

\* One handler runs at a time; CD, JD and VD are the payloads the clients
\* send with create-room, join-room and video-control.
Step(CD, JD, VD) ==
  \/ Connect
  \/ \E s \in Conns, data \in CD : handleCreateRoom(s, data)
  \/ \E s \in Conns, data \in JD : handleJoinRoom(s, data)
  \/ \E s \in Conns, data \in VD : handleVideoControl(s, data)
  \/ \E s \in Conns : handleDisconnect(s)

Next == Step(CreateData, JoinData, ControlData)
Spec == Init /\ [][Next]_vars

NextNames == Step(CreateDataNames, JoinDataNames, ControlDataNames)
SpecNames == Init /\ [][NextNames]_vars

\* RoomManager.updateVideoState alone: it is applied, with each partial state
\* of Partials, to no room and to a room whose creator has set the playback
\* fields to any of VideoStates with video-control.
Partials ==
  {NullState}
    \cup {[currentTime |-> t] : t \in {0, 10, 42}}
    \cup {[isPlaying |-> b] : b \in BOOLEAN}
    \cup {[title |-> x] : x \in {Null, "X"}}
    \cup {[isPlaying |-> b, currentTime |-> t] : b \in BOOLEAN, t \in {0, 42}}
    \cup {[videoUrl |-> "https://host/v.mp4", localPath |-> "/movies/m.mp4"]}
VideoStates ==
  {[EmptyVideoState EXCEPT !.isPlaying = b, !.currentTime = t, !.title = x] :
     b \in BOOLEAN, t \in {0, 10}, x \in {Null, "X"}}

InitMerge ==
  /\ \/ room = NoRoom /\ nrooms = 0 /\ nconn = 0 /\ sio = [c \in Conns |-> {}]
     \/ /\ \E vs \in VideoStates :
             room = [addUser(createRoom([username |-> "al", password |-> "",
                                         privacy |-> "public", maxUsers |-> 0], 1),
                             1, "al") EXCEPT !.videoState = vs]
        /\ nrooms = 1
        /\ nconn = 1
        /\ sio = [c \in Conns |-> IF c = 1 THEN {1} ELSE {}]
  /\ closed = {}
  /\ last = [cmd |-> "start", s |-> 0]
  /\ out = << >>
  /\ jobs = << >>
  /\ nmsg = 0
  /\ wire = [c \in Conns |-> << >>]
  /\ recv = [c \in Conns |-> << >>]
  /\ now = 0
  /\ connectionAttempts = << >>
  /\ token = NoToken
  /\ res = NoRes
  /\ appState = NoAppState
  /\ serverInstance = NoInstance
  /\ servers = << >>
  /\ exited = FALSE

applyUpdate(partial) ==
  /\ room' = UpdateRoomVideoState(room, partial)
  /\ last' = [cmd |-> "updateVideoState", s |-> 0, partial |-> partial]
  /\ out' = << >>
  /\ UNCHANGED <<nrooms, nconn, closed, sio, jobs, nmsg, wire, recv>>
  /\ UNCHANGED offSocket

NextMerge == \E partial \in Partials : applyUpdate(partial)
SpecMerge == InitMerge /\ [][NextMerge]_vars

\* The server with the video commands and the resolver processes: one public
\* room form, one join form.
CreateDataVideo == { [username |-> "al", password |-> "", privacy |-> "public",
                      maxUsers |-> 0] }
JoinDataVideo   == { [username |-> "al", password |-> "", roomId |-> 1] }

\* stdout matters only when the process exits with 0.
CloseOutputs(code) == IF code = ExitOk THEN Outputs ELSE {[kind |-> "garbage"]}

NextVideo ==
  \/ Connect
  \/ \E s \in Conns, data \in CreateDataVideo : handleCreateRoom(s, data)
  \/ \E s \in Conns, data \in JoinDataVideo : handleJoinRoom(s, data)
  \/ \E s \in Conns : handleDisconnect(s)
  \/ \E s \in Conns, data \in LoadData : handleLoadVideo(s, data)
  \/ \E s \in Conns : handleClearVideo(s)
  \/ \E j \in 1..MaxJobs, p \in DOMAIN commands : spawnError(j, p)
  \/ \E j \in 1..MaxJobs, p \in DOMAIN commands :
       \E code \in {ExitOk, ExitFailure, ExitNoEntry} : \E output \in CloseOutputs(code) :
         spawnClose(j, p, code, output)
SpecVideo == Init /\ [][NextVideo]_vars

\* The server with the resolver's outputs of a run that ends with code 0:
\* every formats list of FormatLists.
NextFormats ==
  \/ Connect
  \/ \E s \in Conns, data \in CreateDataVideo : handleCreateRoom(s, data)
  \/ \E s \in Conns, data \in LoadData : handleLoadVideo(s, data)
  \/ \E j \in 1..MaxJobs, p \in DOMAIN commands : \E output \in FormatOutputs :
       spawnClose(j, p, ExitOk, output)
SpecFormats == Init /\ [][NextFormats]_vars

\* ---------------------------------------- GET /stream/:roomId/video ----
\* Text is the sequence of its characters.  String(n): the decimal digits of
\* a number, as a template literal prints it.
DecDigits == << "0", "1", "2", "3", "4", "5", "6", "7", "8", "9" >>
RECURSIVE String(_)
String(n) ==
  IF n < 10 THEN << DecDigits[n + 1] >>
  ELSE String(n \div 10) \o << DecDigits[(n % 10) + 1] >>

\* parseInt(text, 10): the number its leading digits spell, NaN if it starts
\* with none.  NaN is kept apart from every number parseInt can give (the
\* route splits the text at "-", so none is negative).
NaN == -1
DigitValue(ch) == CHOOSE d \in 0..9 : DecDigits[d + 1] = ch
IsDigit(ch) == \E d \in 0..9 : DecDigits[d + 1] = ch
RECURSIVE LeadingValue(_, _)
LeadingValue(text, acc) ==
  IF text = << >> \/ ~IsDigit(Head(text)) THEN acc
  ELSE LeadingValue(Tail(text), 10 * acc + DigitValue(Head(text)))
parseInt(text) ==
  IF text = << >> \/ ~IsDigit(Head(text)) THEN NaN ELSE LeadingValue(text, 0)

\* text.replace(/bytes=/, ""): without the first occurrence of "bytes=".
BytesEq == << "b", "y", "t", "e", "s", "=" >>
IndexOf(text, word) ==
  LET at == {i \in 1..(Len(text) - Len(word) + 1) :
               SubSeq(text, i, i + Len(word) - 1) = word}
  IN IF at = {} THEN 0 ELSE CHOOSE i \in at : \A k \in at : i <= k
Replace(text, word) ==
  IF IndexOf(text, word) = 0 THEN text
  ELSE SubSeq(text, 1, IndexOf(text, word) - 1)
         \o SubSeq(text, IndexOf(text, word) + Len(word), Len(text))

\* text.split("-")
RECURSIVE Split(_)
Split(text) ==
  LET dash == IndexOf(text, << "-" >>)
  IN IF dash = 0 THEN << text >>
     ELSE << SubSeq(text, 1, dash - 1) >> \o Split(SubSeq(text, dash + 1, Len(text)))

\* The files on the host's disk: the video of FileSize bytes, byte i of it
\* being i.
MoviePath == "/movies/m.mp4"
FileBytes(path) == [i \in 1..FileSize |-> i - 1]
existsSync(path) == path = MoviePath

\* fs.statSync(path).size
statSizeShort(path) == Len(FileBytes(path)) - 1
statSize(path) == Len(FileBytes(path))

\* fs.createReadStream(path, {start, end}): it throws if start or end is
\* not an integer or start > end, else it gives bytes start..end, both
\* included, as far as the file has them; fs.createReadStream(path): the
\* whole file.
ReadStreamThrows(start, end) == start = NaN \/ end = NaN \/ start > end
ReadStreamToEnd(path, start, end) == SubSeq(FileBytes(path), start + 1, FileSize)
ReadStream(path, start, end) ==
  SubSeq(FileBytes(path), start + 1, IF end + 1 <= FileSize THEN end + 1 ELSE FileSize)
ReadFile(path) == FileBytes(path)

\* The Range headers a player sends: none, bytes=start-end and bytes=start-
\* for the offsets of RangePoints.
NoRange == << >>
RangePoints == {0, 1, FileSize - 2, FileSize - 1}
RangeHeader(start, end) == BytesEq \o String(start) \o << "-" >> \o String(end)
OpenRangeHeader(start) == BytesEq \o String(start) \o << "-" >>
RangeHeaders ==
  {NoRange}
    \cup {RangeHeader(start, end) : start, end \in RangePoints}
    \cup {OpenRangeHeader(start) : start \in RangePoints}

\* Range headers no player of this program sends but any client may: an end
\* at or beyond the file's size, a start beyond it, no start, no number.
BeyondPoints == {FileSize, FileSize + 3}
SuffixRangeHeader(n) == BytesEq \o << "-" >> \o String(n)
OddRangeHeaders ==
  {RangeHeader(start, end) : start \in {0, FileSize - 1}, end \in BeyondPoints}
    \cup {RangeHeader(start, end) : start, end \in BeyondPoints}
    \cup {SuffixRangeHeader(5), BytesEq \o << "x", "-", "y" >>, << "0", "-", "x" >>}

\* The route's answer: [status, head, body]; an exception thrown in the
\* route is answered by Express with 500.
NotFound(text) == [status |-> 404, body |-> text]
ServerError == [status |-> 500, body |-> "Internal Server Error"]
ContentRange(start, end, fileSize) ==
  << "b", "y", "t", "e", "s", " " >> \o String(start) \o << "-" >> \o String(end)
    \o << "/" >> \o String(fileSize)
DefaultEnd(fileSize) == fileSize - 1
streamVideo(roomId, range) ==
  IF room = NoRoom \/ room.id # roomId THEN NotFound("Room not found")
  ELSE IF \/ "localPath" \notin DOMAIN room.videoState
          \/ ~existsSync(room.videoState.localPath)
  THEN NotFound("Video not found")
  ELSE LET videoPath == room.videoState.localPath
           fileSize  == statSize(videoPath)
       IN IF range # NoRange
          THEN LET parts == Split(Replace(range, BytesEq))
                   start == parseInt(parts[1])
                   end   == IF Len(parts) >= 2 /\ parts[2] # << >>
                            THEN parseInt(parts[2]) ELSE DefaultEnd(fileSize)
                   chunksize == (end - start) + 1
               IN IF ReadStreamThrows(start, end) THEN ServerError ELSE
                  [status |-> 206,
                   head |-> [ContentRange |-> ContentRange(start, end, fileSize),
                             AcceptRanges |-> "bytes",
                             ContentLength |-> chunksize,
                             ContentType |-> "video/mp4"],
                   body |-> ReadStream(videoPath, start, end)]
          ELSE [status |-> 200,
                head |-> [ContentLength |-> fileSize, ContentType |-> "video/mp4"],
                body |-> ReadFile(videoPath)]

getStreamVideo(roomId, range) ==
  /\ res' = streamVideo(roomId, range)
  /\ last' = [cmd |-> "GET /stream/:roomId/video", s |-> 0,
              roomId |-> roomId, range |-> range]
  /\ UNCHANGED <<socketVars, mainVars>>
  /\ UNCHANGED <<now, connectionAttempts, token>>

\* The server with load-video of a local file and of a direct URL,
\* clear-video and the stream route.
DirectUrlData ==
  [url |-> "https://host/v.mp4", type |-> "url", title |-> "v.mp4", usesYtDlp |-> FALSE]
LoadDataStream == {data \in LoadData : ~IsPlatform(data)} \cup {DirectUrlData}
NextStream ==
  \/ Connect
  \/ \E s \in Conns, data \in CreateDataVideo : handleCreateRoom(s, data)
  \/ \E s \in Conns, data \in LoadDataStream : handleLoadVideo(s, data)
  \/ \E s \in Conns : handleClearVideo(s)
  \/ \E roomId \in RoomIds, range \in RangeHeaders : getStreamVideo(roomId, range)
SpecStream == Init /\ [][NextStream]_vars

\* The same server asked with every Range header of RangeHeaders and
\* OddRangeHeaders.
NextRanges ==
  \/ Connect
  \/ \E s \in Conns, data \in CreateDataVideo : handleCreateRoom(s, data)
  \/ \E s \in Conns, data \in LoadDataStream : handleLoadVideo(s, data)
  \/ \E roomId \in RoomIds, range \in RangeHeaders \cup OddRangeHeaders :
       getStreamVideo(roomId, range)
SpecRanges == Init /\ [][NextRanges]_vars

\* ------------------------------------------------ socketRateLimiter ----
\* The clock advances by TickMs at a time.
TickMs == 30000
Tick ==
  /\ now < MaxTicks * TickMs
  /\ now' = now + TickMs
  /\ last' = [cmd |-> "tick", s |-> 0]
  /\ UNCHANGED <<socketVars, mainVars>>
  /\ UNCHANGED <<connectionAttempts, token, res>>

\* socket.handshake.address
Addresses == {"10.0.0.1", "10.0.0.2"}

\* attempts.filter(time => now - time < 60000)
Recent(attempts, at) == SelectSeq(attempts, LAMBDA time : at - time < WindowMs)
TooManyAbove(recentAttempts) == Len(recentAttempts) > MaxAttempts
TooMany(recentAttempts) == Len(recentAttempts) >= MaxAttempts

\* The middleware run for a connection attempt from address ip; res is what
\* it passes to next.
socketRateLimiter(ip) ==
  LET has      == ip \in DOMAIN connectionAttempts
      attempts == IF has THEN connectionAttempts[ip] ELSE << >>
      recentAttempts == Recent(attempts, now)
      set(list) == [a \in DOMAIN connectionAttempts \cup {ip} |->
                      IF a = ip THEN list ELSE connectionAttempts[a]]
  IN /\ IF TooMany(recentAttempts)
        THEN /\ connectionAttempts' = set(attempts)
             /\ res' = [next |-> "error", message |-> "Too many connection attempts"]
        ELSE /\ connectionAttempts' = set(Append(recentAttempts, now))
             /\ res' = [next |-> "ok"]
     /\ last' = [cmd |-> "connection-attempt", s |-> 0, ip |-> ip]
     /\ UNCHANGED <<socketVars, mainVars>>
     /\ UNCHANGED <<now, token>>

NextLimiter ==
  \/ Tick
  \/ \E ip \in Addresses : socketRateLimiter(ip)
SpecLimiter == Init /\ [][NextLimiter]_vars

\* ------------------------------------------------------ room tokens ----
\* jsonwebtoken: a token is its payload and the HS256 signature of the
\* payload under a key; the signature is a value that only the same payload
\* and the same key give.  The times iat and exp of a token are in whole
\* seconds.
secretKey == "secret"
OtherKey  == "other secret"
HS256(payload, key) == [signed |-> payload, key |-> key]
Seconds(ms) == ms \div 1000

\* jwt.sign(payload, key, {expiresIn: '24h'}) at the time `at`.
jwtSign(payload, key, at) ==
  LET claims == [roomId |-> payload.roomId, userId |-> payload.userId,
                 isAdmin |-> payload.isAdmin, timestamp |-> payload.timestamp,
                 iat |-> Seconds(at), exp |-> Seconds(at) + ExpiresInSec]
  IN [exists |-> TRUE, payload |-> claims, signature |-> HS256(claims, key)]

\* jwt.verify(token, key) at the time `at`: the payload, or an exception.
SignatureAny(tok, key) == TRUE
SignatureValid(tok, key) == tok.signature = HS256(tok.payload, key)
Expired(tok, at) == Seconds(at) >= tok.payload.exp
jwtVerify(tok, key, at) ==
  IF SignatureValid(tok, key) /\ ~Expired(tok, at)
  THEN [verified |-> TRUE, payload |-> tok.payload]
  ELSE [verified |-> FALSE]

\* generateRoomToken(roomId, userId, isAdmin); the client then holds the
\* token, and `issued` remembers it as it was issued.
TokenUsers == 1..2
generateRoomToken(roomId, userId, isAdmin) ==
  LET payload == [roomId |-> roomId, userId |-> userId, isAdmin |-> isAdmin,
                  timestamp |-> now]
      signed  == jwtSign(payload, secretKey, now)
  IN /\ token' = [exists |-> TRUE, payload |-> signed.payload,
                  signature |-> signed.signature, issued |-> signed.payload]
     /\ res' = [verified |-> FALSE]
     /\ last' = [cmd |-> "generateRoomToken", s |-> 0]
     /\ UNCHANGED <<socketVars, mainVars>>
     /\ UNCHANGED <<now, connectionAttempts>>

\* What a client can do to the token it holds: change its content and keep
\* the signature, or sign it anew with a key of its own.
Alterations(payload) ==
  { [payload EXCEPT !.isAdmin = ~@],
    [payload EXCEPT !.userId = IF @ = 1 THEN 2 ELSE 1],
    [payload EXCEPT !.exp = @ + ExpiresInSec] }
alterToken ==
  /\ token # NoToken
  /\ token.payload = token.issued
  /\ \E changed \in Alterations(token.payload) :
       token' = [token EXCEPT !.payload = changed]
  /\ last' = [cmd |-> "alter-token", s |-> 0]
  /\ UNCHANGED <<socketVars, mainVars>>
  /\ UNCHANGED <<now, connectionAttempts, res>>
resignToken ==
  /\ token # NoToken
  /\ token.signature.key = secretKey
  /\ token' = [token EXCEPT !.signature = HS256(token.payload, OtherKey)]
  /\ last' = [cmd |-> "resign-token", s |-> 0]
  /\ UNCHANGED <<socketVars, mainVars>>
  /\ UNCHANGED <<now, connectionAttempts, res>>

\* verifyRoomToken(token): the decoded payload, or null.
verifyRoomToken ==
  /\ token # NoToken
  /\ res' = jwtVerify(token, secretKey, now)
  /\ last' = [cmd |-> "verifyRoomToken", s |-> 0]
  /\ UNCHANGED <<socketVars, mainVars>>
  /\ UNCHANGED <<now, connectionAttempts, token>>

\* The clock while a token ages: it advances to a later one of Instants,
\* which lie around the start and around 24 hours after it.
DayMs == ExpiresInSec * 1000
Instants == {0, 400, DayMs - 600, DayMs, DayMs + 400, DayMs + 1000}
Wait(until) ==
  /\ until > now
  /\ now' = until
  /\ last' = [cmd |-> "wait", s |-> 0]
  /\ UNCHANGED <<socketVars, mainVars>>
  /\ UNCHANGED <<connectionAttempts, token, res>>

NextTokens ==
  \/ \E roomId \in RoomIds, userId \in TokenUsers, isAdmin \in BOOLEAN :
       generateRoomToken(roomId, userId, isAdmin)
  \/ alterToken
  \/ resignToken
  \/ verifyRoomToken
  \/ \E until \in Instants : Wait(until)
SpecTokens == Init /\ [][NextTokens]_vars

\* ---------------------------------------------------- sanitizeInput ----
\* SecurityManager.sanitizeInput on text given as its characters: each of
\* < > " ' / is replaced by its entity.  No handler calls it.
Entity(ch) ==
  CASE ch = "<"  -> << "&", "l", "t", ";" >>
    [] ch = ">"  -> << "&", "g", "t", ";" >>
    [] ch = "\"" -> << "&", "q", "u", "o", "t", ";" >>
    [] ch = "'"  -> << "&", "#", "x", "2", "7", ";" >>
    [] ch = "/"  -> << "&", "#", "x", "2", "F", ";" >>
    [] OTHER     -> << ch >>
RECURSIVE sanitizeInput(_)
sanitizeInput(input) ==
  IF input = << >> THEN << >>
  ELSE Entity(Head(input)) \o sanitizeInput(Tail(input))

\* The server with user names and chat texts that carry markup, as their
\* characters.
MarkupNames == { << "a", "l" >>, << "<", "b", ">", "'" >> }
MarkupTexts == { << "h", "i" >>, << "<", "/", "i", ">", "\"" >> }
CreateDataMarkup ==
  { [username |-> n, password |-> "", privacy |-> "public", maxUsers |-> 0] :
      n \in MarkupNames }
JoinDataMarkup ==
  { [username |-> n, password |-> "", roomId |-> 1] : n \in MarkupNames }
ChatDataMarkup == { [message |-> text] : text \in MarkupTexts }
NextMarkup ==
  \/ Connect
  \/ \E s \in Conns, data \in CreateDataMarkup : handleCreateRoom(s, data)
  \/ \E s \in Conns, data \in JoinDataMarkup : handleJoinRoom(s, data)
  \/ \E s \in Conns, data \in ChatDataMarkup : handleChatMessage(s, data)
  \/ \E s \in Conns, data \in TypingData : handleTyping(s, data)
SpecMarkup == Init /\ [][NextMarkup]_vars

\* The server with a disconnect racing a video-control of the same
\* connection: the video-control may be handled after the disconnect.
NextRace ==
  \/ Step(CreateDataVideo, JoinDataVideo, ControlData)
  \/ \E s \in Conns, data \in ControlData : lateVideoControl(s, data)
SpecRace == Init /\ [][NextRace]_vars

\* The server with the chat commands and the delivery of their events.
NextChat ==
  \/ Connect
  \/ \E s \in Conns, data \in CreateDataVideo : handleCreateRoom(s, data)
  \/ \E s \in Conns, data \in JoinDataVideo : handleJoinRoom(s, data)
  \/ \E s \in Conns : handleDisconnect(s)
  \/ \E s \in Conns, data \in ChatData : handleChatMessage(s, data)
  \/ \E s \in Conns, data \in TypingData : handleTyping(s, data)
  \/ \E c \in Conns : Deliver(c)
SpecChat == Init /\ [][NextChat]_vars

\* The server with the room ids createRoom generates: random bytes drawn
\* from ByteSamples, Math.random() values (hundredths) from RandomSamples,
\* and a RoomManager built with or without a SecurityManager (startServer
\* builds it with one).
ByteSamples   == {0, 171}
RandomSamples == {0, 99}
NextIds ==
  \/ Connect
  \/ \E s \in Conns, data \in CreateDataVideo :
       \E bytes \in [1..SecureIdBytes -> ByteSamples] :
         handleCreateRoomAs(s, data, RoomIdOf(TRUE, bytes, << >>))
  \/ \E s \in Conns, data \in CreateDataVideo :
       \E randoms \in [1..RoomIdLen -> RandomSamples] :
         handleCreateRoomAs(s, data, RoomIdOf(FALSE, << >>, randoms))
SpecIds == Init /\ [][NextIds]_vars

\* ------------------------------------------ GET /api/room/:roomId/info ----
\* String.prototype.toUpperCase on text given as its characters.
toUpperCase(text) == [i \in DOMAIN text |-> ToUpperCase(text[i])]

\* RoomManager.getRoomInfo for a room r that exists: the projection.
RoomInfoWithPassword(r) ==
  [id |-> r.id, name |-> r.name, userCount |-> Len(r.users),
   maxUsers |-> r.maxUsers, hasVideo |-> r.videoState.videoUrl # Null,
   isPrivate |-> r.privacy = "private", qualitySettings |-> r.qualitySettings,
   password |-> r.password]
RoomInfo(r) ==
  [id |-> r.id, name |-> r.name, userCount |-> Len(r.users),
   maxUsers |-> r.maxUsers, hasVideo |-> r.videoState.videoUrl # Null,
   isPrivate |-> r.privacy = "private", qualitySettings |-> r.qualitySettings]

\* getRoomInfo(roomId) of a room r (NoRoom: none): the projection, or NoRoom
\* for null.
getRoomInfoOf(r, roomId) ==
  IF r = NoRoom THEN NoRoom
  ELSE IF r.id # toUpperCase(roomId) THEN NoRoom
  ELSE RoomInfo(r)
getRoomInfo(roomId) == getRoomInfoOf(room, roomId)

\* The route: 404 {error} for null, else the projection as JSON.
getRoomInfoRoute(roomId) ==
  /\ res' = IF getRoomInfo(roomId) = NoRoom
            THEN [status |-> 404, body |-> [error |-> "Room not found"]]
            ELSE [status |-> 200, body |-> getRoomInfo(roomId)]
  /\ last' = [cmd |-> "GET /api/room/:roomId/info", s |-> 0, roomId |-> roomId]
  /\ UNCHANGED <<socketVars, mainVars>>
  /\ UNCHANGED <<now, connectionAttempts, token>>

\* The server with secure room ids, rooms of every form and name, a direct
\* URL loaded and cleared, and the info route asked for the live id, the same
\* id in lower case, and other ids.
InfoBytes == { [i \in 1..SecureIdBytes |-> b] : b \in ByteSamples }
InfoIds   == { generateSecureRoomId(bytes) : bytes \in InfoBytes }
InfoRequests == InfoIds \cup { ToHex(bytes) : bytes \in InfoBytes } \cup { << "A", "B" >> }
InfoForms ==
  { <<"pw", "private", 2, "">>, <<"pw2", "private", 2, "">>, <<"", "public", 0, "den">> }
CreateDataInfo ==
  { [username |-> "al", password |-> f[1], privacy |-> f[2], maxUsers |-> f[3],
     roomName |-> f[4]] : f \in InfoForms }
JoinDataInfo == { [username |-> "bo", password |-> hashPassword(pw), roomId |-> 1] :
                    pw \in {"pw", "pw2"} }
NextInfo ==
  \/ Connect
  \/ \E s \in Conns, data \in CreateDataInfo, id \in InfoIds :
       handleCreateRoomAs(s, data, id)
  \/ \E s \in Conns, data \in JoinDataInfo : handleJoinRoom(s, data)
  \/ \E s \in Conns : handleLoadVideo(s, DirectUrlData)
  \/ \E roomId \in InfoRequests : getRoomInfoRoute(roomId)
SpecInfo == Init /\ [][NextInfo]_vars

\* The server with platform load-video requests and the reports of the
\* resolver processes; every spawned process eventually fires 'error' or
\* 'close' (a child process always ends or fails to start).
PlatformData == {data \in LoadData : IsPlatform(data)}
processReports(j, p) ==
  \/ spawnError(j, p)
  \/ \E code \in {ExitOk, ExitFailure, ExitNoEntry} : \E output \in CloseOutputs(code) :
       spawnClose(j, p, code, output)
NextResolve ==
  \/ Connect
  \/ \E s \in Conns, data \in CreateDataVideo : handleCreateRoom(s, data)
  \/ \E s \in Conns : handleDisconnect(s)
  \/ \E s \in Conns, data \in PlatformData : handleLoadVideo(s, data)
  \/ \E j \in 1..MaxJobs, p \in DOMAIN commands : processReports(j, p)
SpecResolve ==
  /\ Init /\ [][NextResolve]_vars
  /\ \A j \in 1..MaxJobs, p \in DOMAIN commands : WF_vars(processReports(j, p))

\* ------------------------------------------------ main.js: host mode ----
\* startServer(port = 5000): on EADDRINUSE it tries the next port, so it
\* listens on the first port from 5000 on that no server of this process
\* holds.
DefaultPort == 5000
Starting  == {i \in DOMAIN servers : servers[i].st = "starting"}
Listening == {i \in DOMAIN servers : servers[i].st = "listening"}
FreePort ==
  CHOOSE port \in DefaultPort..(DefaultPort + MaxStarts) :
    /\ \A i \in Listening : servers[i].port # port
    /\ \A lower \in DefaultPort..(port - 1) : \E i \in Listening : servers[i].port = lower

StartingMsg == "Server is already starting. Please wait a moment."

\* ipcMain.handle("start-host-mode"), up to its await: the two early returns,
\* else the flag is set and startServer() is called.
startHostMode ==
  /\ ~exited
  /\ (~appState.isServerRunning /\ ~appState.isStartingServer) => Len(servers) < MaxStarts
  /\ IF appState.isServerRunning
     THEN /\ res' = [success |-> TRUE, serverInfo |-> appState.serverInfo,
                     alreadyRunning |-> TRUE]
          /\ UNCHANGED <<appState, servers>>
     ELSE IF appState.isStartingServer
     THEN /\ res' = [success |-> FALSE, error |-> StartingMsg]
          /\ UNCHANGED <<appState, servers>>
     ELSE /\ appState' = [appState EXCEPT !.isStartingServer = TRUE, !.mode = "host"]
          /\ servers' = Append(servers, [st |-> "starting", port |-> 0])
          /\ res' = [awaiting |-> Len(servers) + 1]
  /\ last' = [cmd |-> "start-host-mode", s |-> 0]
  /\ UNCHANGED <<serverInstance, exited, now, connectionAttempts, token>>
  /\ UNCHANGED socketVars

\* The rest of the handler once startServer call i has resolved: the listen
\* callback resolves the promise and the handler goes on in the same turn.
startServerResolves(i) ==
  /\ ~exited
  /\ i \in Starting
  /\ servers' = [servers EXCEPT ![i] = [st |-> "listening", port |-> FreePort]]
  /\ serverInstance' = i
  /\ appState' = [appState EXCEPT !.isServerRunning = TRUE,
                                  !.isStartingServer = FALSE,
                                  !.serverInfo = [port |-> FreePort]]
  /\ res' = [success |-> TRUE, serverInfo |-> [port |-> FreePort]]
  /\ last' = [cmd |-> "startServer resolved", s |-> 0, call |-> i]
  /\ UNCHANGED <<exited, now, connectionAttempts, token>>
  /\ UNCHANGED socketVars

\* The catch block once startServer call i has rejected (listen failed with
\* an error other than EADDRINUSE).
startServerRejects(i) ==
  /\ ~exited
  /\ i \in Starting
  /\ servers' = [servers EXCEPT ![i].st = "failed"]
  /\ appState' = [appState EXCEPT !.isStartingServer = FALSE, !.isServerRunning = FALSE]
  /\ res' = [success |-> FALSE, error |-> "listen failed"]
  /\ last' = [cmd |-> "startServer rejected", s |-> 0, call |-> i]
  /\ UNCHANGED <<serverInstance, exited, now, connectionAttempts, token>>
  /\ UNCHANGED socketVars

\* stopServer(): it acts only if serverInstance is set and isServerRunning;
\* what it leaves behind.
StopsServer == serverInstance # NoInstance /\ appState.isServerRunning
stopServer ==
  IF StopsServer
  THEN [servers |-> [servers EXCEPT ![serverInstance].st = "closed"],
        appState |-> [appState EXCEPT !.isServerRunning = FALSE,
                                      !.isStartingServer = FALSE,
                                      !.serverInfo = NoServerInfo],
        serverInstance |-> NoInstance]
  ELSE [servers |-> servers, appState |-> appState, serverInstance |-> serverInstance]

\* ipcMain.handle("stop-server"): stopServer(), then appState.mode = null.
stopServerRequest ==
  /\ ~exited
  /\ servers' = stopServer.servers
  /\ appState' = [stopServer.appState EXCEPT !.mode = Null]
  /\ serverInstance' = stopServer.serverInstance
  /\ res' = [success |-> TRUE]
  /\ last' = [cmd |-> "stop-server", s |-> 0]
  /\ UNCHANGED <<exited, now, connectionAttempts, token>>
  /\ UNCHANGED socketVars

\* app.on("window-all-closed") and app.on("before-quit"): stopServer(), and
\* the process quits; the servers it still has end with it.
quit(event) ==
  /\ ~exited
  /\ exited' = TRUE
  /\ servers' = [i \in DOMAIN servers |->
                   IF stopServer.servers[i].st \in {"starting", "listening"}
                   THEN [servers[i] EXCEPT !.st = "closed"] ELSE stopServer.servers[i]]
  /\ appState' = stopServer.appState
  /\ serverInstance' = stopServer.serverInstance
  /\ last' = [cmd |-> event, s |-> 0]
  /\ UNCHANGED <<res, now, connectionAttempts, token>>
  /\ UNCHANGED socketVars
windowAllClosed == quit("window-all-closed")
beforeQuit      == quit("before-quit")

\* process.on("uncaughtException") and process.on("unhandledRejection")
fault(event) ==
  /\ ~exited
  /\ appState' = [appState EXCEPT !.isStartingServer = FALSE]
  /\ last' = [cmd |-> event, s |-> 0]
  /\ UNCHANGED <<serverInstance, servers, exited, res, now, connectionAttempts, token>>
  /\ UNCHANGED socketVars

\* The main process: the IPC requests in any order, the start of the server
\* settling, the window closing, and faults caught by the process handlers.
\* Every startServer call settles (listen succeeds or fails).
startServerSettles(i) == startServerResolves(i) \/ startServerRejects(i)
NextMain ==
  \/ startHostMode
  \/ \E i \in 1..MaxStarts : startServerResolves(i)
  \/ \E i \in 1..MaxStarts : startServerRejects(i)
  \/ stopServerRequest
  \/ windowAllClosed
  \/ beforeQuit
  \/ \E event \in {"uncaughtException", "unhandledRejection"} : fault(event)
SpecMain ==
  /\ Init /\ [][NextMain]_vars
  /\ \A i \in 1..MaxStarts : WF_vars(startServerSettles(i))

\* ======================================================== properties ====
\* A step that is handler H run by socket s with payload data; Sender is the
\* socket whose command the step handles.
Sender == last'.s
Creates(s, data)  == last'.cmd = "create-room" /\ last'.s = s /\ handleCreateRoom(s, data)
Joins(s, data)    == last'.cmd = "join-room" /\ last'.s = s /\ handleJoinRoom(s, data)
Controls(s, data) == last'.cmd = "video-control" /\ last'.s = s /\ handleVideoControl(s, data)
Disconnects(s)    == last'.cmd = "disconnect" /\ last'.s = s /\ handleDisconnect(s)

UsersOf(r) == IF r = NoRoom THEN {} ELSE {r.users[i] : i \in DOMAIN r.users}
AdminFlagged(r) == {u \in UsersOf(r) : u.isAdmin}

\* C1: whenever the room has users, exactly one of them has isAdmin = true.
ExactlyOneAdminFlag ==
  (HasRoom /\ Len(room.users) > 0) => Cardinality(AdminFlagged(room)) = 1

\* C2: room.admin is set iff the room has users, and then it is the id of a
\* current user (so it is none once the last user's disconnect is handled).
AdminSetIffUsers ==
  HasRoom => /\ (room.admin # NoAdmin) <=> (Len(room.users) > 0)
             /\ room.admin # NoAdmin => room.admin \in UserIds

\* C3: when the admin's disconnect is handled and other users remain, the
\* same step makes one of them the admin (room.admin and that user's isAdmin)
\* and the user-left event to the remaining users carries that user as
\* newAdmin; when another user disconnects, room.admin is unchanged and
\* user-left carries no newAdmin.
AdminHandover ==
  [][last'.cmd = "disconnect" => \A s \in {Sender} :
       (HasRoom /\ s \in UserIds /\ Disconnects(s)) =>
         LET rest == UserIds \ {s} IN
         IF room.admin = s
         THEN rest # {} =>
                /\ room'.admin \in rest
                /\ MapGet(room'.users, room'.admin).isAdmin
                /\ Len(out') = 1
                /\ out'[1].ev = "user-left"
                /\ rest \subseteq out'[1].to
                /\ "newAdmin" \in DOMAIN out'[1].data
                /\ out'[1].data.newAdmin = MapGet(room'.users, room'.admin)
         ELSE /\ room'.admin = room.admin
              /\ Len(out') = 1
              /\ out'[1].ev = "user-left"
              /\ rest \subseteq out'[1].to
              /\ "newAdmin" \notin DOMAIN out'[1].data
  ]_vars

\* C3 witness: an admin has left and the user-left event names the new admin.
AdminHandoverSeen ==
  /\ last.cmd = "disconnect"
  /\ Len(out) = 1
  /\ out[1].ev = "user-left"
  /\ "newAdmin" \in DOMAIN out[1].data
  /\ room.admin = out[1].data.newAdmin.id

\* The supplied password is the one the room was created with: createRoom
\* would store the same value for it.
IsRoomPassword(password) == StoredPassword(password) = room.password

\* C4: on a private room, a join-room whose password is not the room's
\* password is answered with "Wrong password" to the sender alone and changes
\* nothing.
WrongPasswordRejected ==
  [][last'.cmd = "join-room" => \A s \in {Sender} : \A data \in JoinData :
       (HasRoom /\ room.privacy = "private" /\ ~IsRoomPassword(data.password)
          /\ Joins(s, data)) =>
         /\ out' = << Error(s, "Wrong password") >>
         /\ room' = room
         /\ sio' = sio
  ]_vars

\* C5: on a private room created with a non-empty password p, a join-room
\* that supplies p while the room is not full succeeds and adds the sender.
RightPasswordJoins ==
  [][last'.cmd = "join-room" => \A s \in {Sender} : \A data \in JoinData :
       (HasRoom /\ room.privacy = "private"
          /\ data.password # "" /\ verifyPassword(data.password, room.password)
          /\ Len(room.users) < room.maxUsers /\ Joins(s, data)) =>
         /\ s \in UserIdsOf(room'.users)
         /\ Len(out') >= 1
         /\ out'[1].ev = "room-joined"
         /\ out'[1].to = {s}
  ]_vars

\* C6 as stated: users.size <= maxUsers always (maxUsers >= 1), and every
\* join-room handled when users.size >= maxUsers is answered "Room is full"
\* and leaves the users unchanged.
WithinCapacity(r) == (r # NoRoom /\ r.maxUsers >= 1) => Len(r.users) <= r.maxUsers

PassesPasswordCheck(data) ==
  room.privacy # "private" \/ room.password = data.password

WrongRoomIdRejected ==
  [][last'.cmd = "join-room" => \A s \in {Sender} : \A data \in JoinData :
       ((~HasRoom \/ data.roomId # room.id) /\ Joins(s, data)) =>
         /\ out' = << Error(s, "Room not found") >>
         /\ room' = room
  ]_vars

\* Every user of the room after the step was a user of that room before it.
AddsNoUser ==
  \A u \in UsersOf(room') : HasRoom /\ room.id = room'.id /\ u \in UsersOf(room)

FailsFor(s) == Len(out') = 1 /\ out'[1].ev = "error" /\ out'[1].to = {s}

\* C8: a join-room or create-room whose user name is missing, shorter than
\* 2 or longer than 20 characters fails and adds no user.
InvalidNameRejected ==
  [][/\ last'.cmd = "join-room" => \A s \in {Sender} : \A data \in JoinDataNames :
          (~ValidUsername(data.username) /\ Joins(s, data)) =>
            FailsFor(s) /\ AddsNoUser
     /\ last'.cmd = "create-room" => \A s \in {Sender} : \A data \in CreateDataNames :
          (~ValidUsername(data.username) /\ Creates(s, data)) =>
            FailsFor(s) /\ AddsNoUser
  ]_vars

\* C9: a video-control from a socket that is not the room's admin, or
\* handled when no room exists, changes nothing and emits nothing.
NonAdminControlIgnored ==
  [][last'.cmd = "video-control" => \A s \in {Sender} : \A data \in ControlData :
       (~(HasRoom /\ room.admin = s) /\ Controls(s, data)) =>
         /\ room' = room
         /\ out' = << >>
  ]_vars

\* C9 witness: a user who is not the admin sent video-control; nothing was
\* emitted.
NonAdminControlSeen ==
  /\ last.cmd = "video-control"
  /\ HasRoom
  /\ last.s \in UserIds
  /\ last.s # room.admin
  /\ out = << >>

\* C10: a video-control from the admin sets the videoState fields it carries,
\* leaves the others, and is emitted once, with the same payload, to a set of
\* sockets that holds every other user and not the sender.
AdminControlRelayed ==
  [][last'.cmd = "video-control" => \A s \in {Sender} : \A data \in ControlData :
       (HasRoom /\ room.admin = s /\ Controls(s, data)) =>
         /\ DOMAIN room'.videoState = DOMAIN room.videoState \cup DOMAIN data
         /\ \A f \in DOMAIN data : room'.videoState[f] = data[f]
         /\ \A f \in DOMAIN room.videoState \ DOMAIN data :
              room'.videoState[f] = room.videoState[f]
         /\ Len(out') = 1
         /\ out'[1].ev = "video-control"
         /\ out'[1].data = data
         /\ (UserIds \ {s}) \subseteq out'[1].to
         /\ s \notin out'[1].to
  ]_vars

\* C10 witness: the admin's video-control reached two other users and changed
\* the playback position.
AdminControlSeen ==
  /\ last.cmd = "video-control"
  /\ HasRoom
  /\ last.s = room.admin
  /\ Len(out) = 1
  /\ out[1].ev = "video-control"
  /\ Cardinality(out[1].to) >= 2
  /\ room.videoState.currentTime > 0
  /\ room.videoState.isPlaying

\* C16: after a create-room there is a room whose users are exactly the
\* sender, who is its admin; its videoState is empty; it has an id no earlier
\* room had and no other socket has joined it, so no user of the room it
\* replaces is a member of it; and room-created is emitted to the sender
\* alone.
RoomReplaced ==
  [][last'.cmd = "create-room" => \A s \in {Sender} : \A data \in CreateData :
       Creates(s, data) =>
         /\ room' # NoRoom
         /\ Len(room'.users) = 1
         /\ room'.users[1].id = s
         /\ room'.users[1].isAdmin
         /\ room'.admin = s
         /\ room'.videoState = EmptyVideoState
         /\ HasRoom => room'.id # room.id
         /\ \A c \in Conns \ {s} : room'.id \notin sio'[c]
         /\ Len(out') = 1
         /\ out'[1].ev = "room-created"
         /\ out'[1].to = {s}
         /\ out'[1].data.users = room'.users
  ]_vars

\* C16 witness: a second room has been created while two other sockets are
\* connected; its only user is its creator.
RoomReplacedSeen ==
  /\ last.cmd = "create-room"
  /\ nrooms = 2
  /\ Cardinality(Open) = 3
  /\ UserIds = {last.s}
  /\ room.admin = last.s

\* C17: every room's id has exactly 8 characters, each one of
\* ABCDEFGHIJKLMNPQRSTUVWXYZ123456789.
RoomIdWellFormed ==
  HasRoom => /\ Len(room.id) = RoomIdLen
             /\ \A i \in DOMAIN room.id : \E k \in DOMAIN chars : room.id[i] = chars[k]

\* C18: a join-room that passes the checks emits room-joined to the sender
\* alone, with the room's videoState and the user list that now holds the
\* sender, and then user-joined, with the same user list, to a set of sockets
\* that holds every other user and not the sender.
JoinAnnounced ==
  [][last'.cmd = "join-room" => \A s \in {Sender} : \A data \in JoinData :
       (JoinError(data) = "" /\ Joins(s, data)) =>
         /\ Len(out') = 2
         /\ out'[1].ev = "room-joined"
         /\ out'[1].to = {s}
         /\ out'[1].data.videoState = room.videoState
         /\ room'.videoState = room.videoState
         /\ out'[1].data.users = room'.users
         /\ s \in UserIdsOf(out'[1].data.users)
         /\ out'[2].ev = "user-joined"
         /\ out'[2].data.users = out'[1].data.users
         /\ (UserIdsOf(room'.users) \ {s}) \subseteq out'[2].to
         /\ s \notin out'[2].to
  ]_vars

\* C18 witness: a third user has joined a room whose video is playing; the
\* two others are sent user-joined.
JoinAnnouncedSeen ==
  /\ last.cmd = "join-room"
  /\ Len(out) = 2
  /\ out[1].ev = "room-joined"
  /\ out[1].data.videoState.isPlaying
  /\ Len(out[1].data.users) = 3
  /\ out[2].to = UserIds \ {last.s}
  /\ Cardinality(out[2].to) = 2

\* ------------------------------------------------------ video claims ----
Loads(s, data) == last'.cmd = "load-video" /\ last'.s = s /\ handleLoadVideo(s, data)
Clears(s)      == last'.cmd = "clear-video" /\ last'.s = s /\ handleClearVideo(s)
Errors(j, p)   == last'.cmd = "spawn-error" /\ last'.job = j /\ last'.proc = p /\ spawnError(j, p)
Closes(j, p, code, output) ==
  last'.cmd = "spawn-close" /\ last'.job = j /\ last'.proc = p /\ spawnClose(j, p, code, output)

\* The step emits one event: the error `msg`, to socket s alone.
Answered(s, msg) ==
  /\ Len(out') = 1
  /\ out'[1].ev = "error"
  /\ out'[1].to = {s}
  /\ out'[1].data = msg

\* C11: a load-video or clear-video from a socket that is not the room's
\* admin, or handled when no room exists, is answered with the "Only admin"
\* error to that socket alone; the room (its videoState included) is
\* unchanged, no resolver process is started and nothing else is emitted.
NonAdminVideoRejected ==
  [][/\ last'.cmd = "load-video" => \A s \in {Sender} : \A data \in LoadData :
          (~(HasRoom /\ room.admin = s) /\ Loads(s, data)) =>
            /\ Answered(s, "Only admin can load videos")
            /\ room' = room
            /\ jobs' = jobs
     /\ last'.cmd = "clear-video" => \A s \in {Sender} :
          (~(HasRoom /\ room.admin = s) /\ Clears(s)) =>
            /\ Answered(s, "Only admin can clear videos")
            /\ room' = room
            /\ jobs' = jobs
  ]_vars

\* C11 witness: a member who is not the admin asked to load a platform
\* video and got the error; no resolver call exists.
NonAdminLoadSeen ==
  /\ last.cmd = "load-video"
  /\ HasRoom
  /\ last.s \in UserIds
  /\ last.s # room.admin
  /\ out = << Error(last.s, "Only admin can load videos") >>
  /\ jobs = << >>

\* The step has started a resolver process for call j.
Spawned(j) ==
  /\ j \in DOMAIN jobs'
  /\ Len(jobs') = Len(jobs)
  /\ Len(jobs'[j].procs) > Len(jobs[j].procs)

\* C19: every resolver call runs yt-dlp as its first process and youtube-dl
\* as its second, and never a third; the second is started only by the step
\* that hears that the first could not be started or exited non-zero; and
\* when the second cannot be started either (so whenever neither binary
\* exists) that step emits the "not installed" error on the requester's
\* socket.
ResolverOrder ==
  [][/\ \A j \in DOMAIN jobs' :
          /\ Len(jobs'[j].procs) \in 1..2
          /\ \A p \in DOMAIN jobs'[j].procs : jobs'[j].procs[p].cmd = commands[p]
     /\ last'.cmd = "spawn-error" => \A j \in {last'.job} : \A p \in {last'.proc} :
          Errors(j, p) =>
            /\ Spawned(j) => p = 1
            /\ p = 2 => /\ Len(out') = 1
                        /\ out'[1].ev = "error"
                        /\ out'[1].data = NotInstalledMsg
                        /\ out'[1].to = {jobs[j].socket} \cap Open
     /\ last'.cmd = "spawn-close" => \A j \in {last'.job} : \A p \in {last'.proc} :
          \A code \in {ExitOk, ExitFailure, ExitNoEntry} : \A output \in CloseOutputs(code) :
            (Closes(j, p, code, output) /\ Spawned(j)) => (p = 1 /\ code # ExitOk)
  ]_vars

\* C19 witness: neither binary could be started (the first process has
\* reported 'error' and not yet 'close', the second has just reported 'error')
\* and the requester, still connected, is sent the "not installed" error.
NeitherBinarySeen ==
  /\ last.cmd = "spawn-error"
  /\ last.proc = 2
  /\ last.job \in DOMAIN jobs
  /\ jobs[last.job].procs[1].st = "errored"
  /\ jobs[last.job].procs[2].st = "errored"
  /\ out = << Emit({last.s}, "error", NotInstalledMsg) >>

OnlyTo(s) == \A i \in DOMAIN out' : out'[i].to \subseteq {s}

\* C20: every step of a platform load-video that is not a successful end of
\* a resolver process (the request itself, a binary that cannot be started,
\* a non-zero exit, output that cannot be parsed) leaves the room, its
\* videoState included, unchanged and emits to no socket but the requester's.
FailedLoadSilent ==
  [][/\ last'.cmd = "load-video" => \A s \in {Sender} : \A data \in LoadData :
          (IsPlatform(data) /\ Loads(s, data)) => (room' = room /\ OnlyTo(s))
     /\ last'.cmd = "spawn-error" => \A j \in {last'.job} : \A p \in {last'.proc} :
          Errors(j, p) => (room' = room /\ OnlyTo(jobs[j].socket))
     /\ last'.cmd = "spawn-close" => \A j \in {last'.job} : \A p \in {last'.proc} :
          \A code \in {ExitOk, ExitFailure, ExitNoEntry} : \A output \in CloseOutputs(code) :
            ((code # ExitOk \/ ParseFails(output)) /\ Closes(j, p, code, output)) =>
              (room' = room /\ OnlyTo(jobs[j].socket))
  ]_vars

\* C20 witness: the admin's platform load has ended with output that cannot
\* be parsed; the admin is sent the error while another user is in the room.
FailedLoadSeen ==
  /\ last.cmd = "spawn-close"
  /\ HasRoom
  /\ last.s = room.admin
  /\ Cardinality(UserIds) >= 2
  /\ jobs = << >>
  /\ out = << Emit({last.s}, "error", ParseFailedMsg) >>

\* ------------------------------------------------- updateVideoState ----
Updates(partial) == last'.cmd = "updateVideoState" /\ applyUpdate(partial)

\* The example: {currentTime: 42} on {isPlaying: true, currentTime: 10,
\* title: "X"} gives {isPlaying: true, currentTime: 42, title: "X"}.
MergeExample ==
  updateVideoState([isPlaying |-> TRUE, currentTime |-> 10, title |-> "X"],
                   [currentTime |-> 42])
    = [isPlaying |-> TRUE, currentTime |-> 42, title |-> "X"]

\* C12: updateVideoState(partial) gives videoState exactly the fields of
\* partial with the supplied values and leaves every other field of
\* videoState, and the rest of the room, as it was; with no room it changes
\* nothing.
MergeExact ==
  [][last'.cmd = "updateVideoState" => \A partial \in Partials :
       Updates(partial) =>
         /\ MergeExample
         /\ IF room = NoRoom THEN room' = NoRoom
            ELSE /\ DOMAIN room'.videoState = DOMAIN room.videoState \cup DOMAIN partial
                 /\ \A f \in DOMAIN partial : room'.videoState[f] = partial[f]
                 /\ \A f \in DOMAIN room.videoState \ DOMAIN partial :
                      room'.videoState[f] = room.videoState[f]
                 /\ [room' EXCEPT !.videoState = room.videoState] = room
  ]_vars

\* C12 witness: {currentTime: 42} has been merged into a state that keeps
\* isPlaying = true and title = "X".
MergeSeen ==
  /\ last.cmd = "updateVideoState"
  /\ last.partial = [currentTime |-> 42]
  /\ HasRoom
  /\ room.videoState.isPlaying
  /\ room.videoState.title = "X"
  /\ room.videoState.currentTime = 42

\* ------------------------------------------------------- chat claims ----
Chats(s, data) == last'.cmd = "chat-message" /\ last'.s = s /\ handleChatMessage(s, data)
Types(s, data) == last'.cmd = "typing" /\ last'.s = s /\ handleTyping(s, data)

\* C13: a chat-message from a user of the room is emitted once, to a set of
\* sockets that holds every user of the room, the sender included, with the
\* sender's name and isAdmin flag and the message text; from a socket that
\* is not a user of the live room, or with no room, it emits nothing and
\* changes nothing.
ChatRelayed ==
  [][last'.cmd = "chat-message" => \A s \in {Sender} : \A data \in ChatData :
       Chats(s, data) =>
         /\ room' = room
         /\ sio' = sio
         /\ IF HasRoom /\ s \in UserIds
            THEN /\ Len(out') = 1
                 /\ out'[1].ev = "chat-message"
                 /\ UserIds \subseteq out'[1].to
                 /\ s \in out'[1].to
                 /\ out'[1].data.user = MapGet(room.users, s).name
                 /\ out'[1].data.isAdmin = MapGet(room.users, s).isAdmin
                 /\ out'[1].data.message = data.message
            ELSE /\ out' = << >>
                 /\ wire' = wire
  ]_vars

\* C13 witness: the admin's chat-message went to three users, the admin
\* among them, tagged isAdmin.
ChatSeen ==
  /\ last.cmd = "chat-message"
  /\ HasRoom
  /\ Len(out) = 1
  /\ out[1].data.isAdmin
  /\ last.s \in out[1].to
  /\ Cardinality(out[1].to) = 3
  /\ out[1].to = UserIds

\* C14: the chat-message and typing events a client has received are in the
\* order in which the server handled the commands that caused them.
FifoOrder ==
  \A c \in Conns : \A i, j \in DOMAIN recv[c] :
    i < j => recv[c][i].n < recv[c][j].n

\* C14 witness: a client has received a typing event and a chat-message of
\* two commands.
FifoSeen ==
  \E c \in Conns :
    /\ Len(recv[c]) = 2
    /\ {recv[c][1].ev, recv[c][2].ev} = {"chat-message", "typing"}

\* C15: a typing from a user of the room is emitted once, to a set of
\* sockets that holds every other user of the room and not the sender; from
\* a socket that is not a user of the live room, or with no room, nothing is
\* emitted.
TypingRelayed ==
  [][last'.cmd = "typing" => \A s \in {Sender} : \A data \in TypingData :
       Types(s, data) =>
         IF HasRoom /\ s \in UserIds
         THEN /\ Len(out') = 1
              /\ out'[1].ev = "typing"
              /\ (UserIds \ {s}) \subseteq out'[1].to
              /\ s \notin out'[1].to
         ELSE /\ out' = << >>
              /\ wire' = wire
  ]_vars

\* C15 witness: a user's typing went to the two other users.
TypingSeen ==
  /\ last.cmd = "typing"
  /\ HasRoom
  /\ Len(out) = 1
  /\ out[1].ev = "typing"
  /\ out[1].to = UserIds \ {last.s}
  /\ Cardinality(out[1].to) = 2

\* ------------------------------------------------- claims: formats ----
\* The entries of a formats list that carry a video codec, and those that
\* carry a video and an audio codec in the mp4 container.
WithVideo(fs) == {i \in DOMAIN fs : fs[i].vcodec # "none"}
Complete(fs) ==
  {i \in DOMAIN fs : fs[i].vcodec # "none" /\ fs[i].acodec # "none" /\ fs[i].ext = "mp4"}
First(I) == CHOOSE i \in I : \A k \in I : i <= k
WellFormed(output) ==
  "formats" \in DOMAIN output /\ \A i \in DOMAIN output.formats : output.formats[i].url # Null
PlayableOutputs ==
  {o \in FormatOutputs : WellFormed(o) /\ WithVideo(o.formats) # {}}

\* The stream URL the claim names for a formats list with a video entry.
Preferred(fs) ==
  IF Complete(fs) # {} THEN fs[First(Complete(fs))].url ELSE fs[First(WithVideo(fs))].url

\* C21: when a resolver run ends with well-formed output whose formats list
\* has an entry with a video codec, the videoState stored and broadcast has
\* the url of the first entry with video codec, audio codec and mp4 if there
\* is one, else of the first entry with a video codec.
PlayableCases ==
  {[output |-> o, url |-> Preferred(o.formats)] : o \in PlayableOutputs}
FormatPreferred ==
  [][last'.cmd = "spawn-close" =>
       \A case \in PlayableCases :
         \/ /\ room'.videoState.videoUrl = case.url
            /\ Len(out') > 0
            /\ out'[1].ev = "video-loaded"
            /\ out'[1].data.videoState.videoUrl = case.url
         \/ ~Closes(last'.job, last'.proc, ExitOk, case.output)]_vars

\* A run has chosen the second entry, complete, over a first entry that has
\* only video.
FormatPreferredSeen ==
  /\ last.cmd = "spawn-close"
  /\ HasRoom
  /\ room.videoState.videoUrl = FormatUrl(2)
  /\ Len(out) = 2

\* C22: when a resolver run ends with output none of whose formats carries a
\* video codec, the requester gets one error, nothing else is emitted and
\* the room is unchanged.
NoPlayableFormatFails ==
  [][last'.cmd = "spawn-close" =>
       \A output \in FormatOutputs :
         (/\ ("formats" \in DOMAIN output => WithVideo(output.formats) = {})
          /\ Closes(last'.job, last'.proc, ExitOk, output))
         => /\ room' = room
            /\ Len(out') = 1
            /\ out'[1].ev = "error"
            /\ out'[1].to \subseteq {last'.s}]_vars

\* ------------------------------------- claims: late resolver results ----
Members(r) == UserIdsOf(r.users)

\* C23: when a resolver run ends successfully after the admin who requested
\* the load has disconnected, the room's videoState becomes the resolved
\* stream and video-loaded goes to exactly the members the room then has.
LateResolveReachesRoom ==
  [][last'.cmd = "spawn-close" => \A j \in {last'.job} : \A p \in {last'.proc} :
       \A output \in GoodOutputs :
         (/\ j \in DOMAIN jobs
          /\ jobs[j].socket \in closed
          /\ Closes(j, p, ExitOk, output))
         => /\ room'.videoState
                 = updateVideoState(room.videoState, ResolvedState(jobs[j].data, output))
            /\ Len(out') >= 1
            /\ out'[1].ev = "video-loaded"
            /\ out'[1].to = Members(room)]_vars

\* The same while the live room is still the one the load was requested in.
LateResolveSameRoom ==
  [][last'.cmd = "spawn-close" => \A j \in {last'.job} : \A p \in {last'.proc} :
       \A output \in GoodOutputs :
         (/\ j \in DOMAIN jobs
          /\ jobs[j].socket \in closed
          /\ jobs[j].roomId = room.id
          /\ Closes(j, p, ExitOk, output))
         => /\ room'.videoState
                 = updateVideoState(room.videoState, ResolvedState(jobs[j].data, output))
            /\ Len(out') >= 1
            /\ out'[1].ev = "video-loaded"
            /\ out'[1].to = Members(room)]_vars

\* A run has ended successfully after its requester left, and a member of
\* the same room has been sent video-loaded.
LateResolveSeen ==
  /\ last.cmd = "spawn-close"
  /\ last.s \in closed
  /\ HasRoom
  /\ room.videoState.videoType = "stream"
  /\ "originalUrl" \in DOMAIN room.videoState
  /\ Len(out) >= 1
  /\ out[1].ev = "video-loaded"
  /\ out[1].to # {}
  /\ out[1].to = Members(room)

\* ------------------------------- claims: disconnect before control ----
LateControls(s, data) ==
  last'.cmd = "video-control" /\ last'.s = s /\ lateVideoControl(s, data)

\* C24: a video-control handled after the disconnect of the connection that
\* sent it changes nothing in the room and reaches no socket.
LateControlIgnored ==
  [][last'.cmd = "video-control" => \A s \in {Sender} : \A data \in ControlData :
       (s \in closed /\ LateControls(s, data)) =>
         /\ room' = room
         /\ \A i \in DOMAIN out' : out'[i].to = {}
  ]_vars

\* The same for a connection that was not the room's last member.
LateControlIgnoredWithOthers ==
  [][last'.cmd = "video-control" => \A s \in {Sender} : \A data \in ControlData :
       (s \in closed /\ HasRoom /\ Len(room.users) > 0 /\ LateControls(s, data)) =>
         /\ room' = room
         /\ out' = << >>
  ]_vars

\* ----------------------------------------- claims: the stream route ----
Gets(roomId, range) ==
  last'.cmd = "GET /stream/:roomId/video" /\ getStreamVideo(roomId, range)
ServesFile == HasRoom /\ "localPath" \in DOMAIN room.videoState

\* C25: on a room that has a local file, a request of the room's id with
\* Range bytes=start-end, 0 <= start <= end < FileSize, is answered 206 with
\* Content-Range "bytes start-end/FileSize", Accept-Ranges bytes,
\* Content-Length end-start+1 and the bytes start..end of the file as body;
\* with bytes=start- the end is FileSize-1.
ClosedRanges ==
  {[start |-> start, end |-> end, header |-> RangeHeader(start, end)] :
     start, end \in RangePoints}
OpenRanges ==
  {[start |-> start, header |-> OpenRangeHeader(start)] : start \in RangePoints}
ContentRangeText(start, end) ==
  << "b", "y", "t", "e", "s", " " >> \o String(start) \o << "-" >> \o String(end)
    \o << "/" >> \o String(FileSize)
RangeServed ==
  [][last'.cmd = "GET /stream/:roomId/video" =>
       /\ \A r \in ClosedRanges :
            (/\ last'.range = r.header
             /\ r.start <= r.end
             /\ ServesFile
             /\ Gets(room.id, r.header))
            => /\ res'.status = 206
               /\ res'.head.ContentRange = ContentRangeText(r.start, r.end)
               /\ res'.head.AcceptRanges = "bytes"
               /\ res'.head.ContentLength = r.end - r.start + 1
               /\ res'.body = [i \in 1..(r.end - r.start + 1) |-> r.start + i - 1]
       /\ \A r \in OpenRanges :
            (/\ last'.range = r.header
             /\ ServesFile
             /\ Gets(room.id, r.header))
            => /\ res'.status = 206
               /\ res'.head.ContentRange = ContentRangeText(r.start, FileSize - 1)
               /\ res'.head.AcceptRanges = "bytes"
               /\ res'.head.ContentLength = FileSize - r.start
               /\ res'.body = [i \in 1..(FileSize - r.start) |-> r.start + i - 1]
  ]_vars

\* A two-digit range and an open range have been served.
RangeServedSeen ==
  /\ last.cmd = "GET /stream/:roomId/video"
  /\ last.range = RangeHeader(1, FileSize - 2)
  /\ res.status = 206
  /\ Len(res.body) = FileSize - 2
OpenRangeServedSeen ==
  /\ last.cmd = "GET /stream/:roomId/video"
  /\ last.range = OpenRangeHeader(1)
  /\ res.status = 206
  /\ Len(res.body) = FileSize - 1

\* C26: on a room that has a local file, a request of the room's id without
\* a Range header is answered 200 with Content-Length FileSize and the whole
\* file as body.
WholeFileServed ==
  [][last'.cmd = "GET /stream/:roomId/video" =>
       ((ServesFile /\ Gets(room.id, NoRange))
          => /\ res'.status = 200
             /\ res'.head.ContentLength = FileSize
             /\ res'.body = [i \in 1..FileSize |-> i - 1])
  ]_vars
WholeFileServedSeen ==
  /\ last.cmd = "GET /stream/:roomId/video"
  /\ last.range = NoRange
  /\ res.status = 200
  /\ Len(res.body) = FileSize

\* C27: the route answers 404 unless the path id is the live room's id and
\* the room's current video is a local file (its videoUrl is the stream path
\* of the room).
CurrentIsLocalFile == HasRoom /\ room.videoState.videoUrl = StreamUrl(room.id)
OnlyCurrentFileServed ==
  [][last'.cmd = "GET /stream/:roomId/video" =>
       (res'.status # 404 => (CurrentIsLocalFile /\ last'.roomId = room.id))
  ]_vars

\* The part of it about the path id.
OnlyLiveRoomServed ==
  [][last'.cmd = "GET /stream/:roomId/video" =>
       (res'.status # 404 => (HasRoom /\ last'.roomId = room.id))
  ]_vars

\* ------------------------------------------- claims: rate limiter ----
Attempts(ip) == last'.cmd = "connection-attempt" /\ last'.ip = ip /\ socketRateLimiter(ip)
Accepted(ip) == IF ip \in DOMAIN connectionAttempts THEN connectionAttempts[ip] ELSE << >>
Times == {k * TickMs : k \in 0..(MaxTicks + 1)}

\* The accepted attempts of ip at the times from `from` up to, not
\* including, from + 60 s; and those in the 60 s before `at`.
InWindow(list, from) == {i \in DOMAIN list : from <= list[i] /\ list[i] < from + WindowMs}
Preceding(list, at) == {i \in DOMAIN list : at - WindowMs < list[i] /\ list[i] <= at}

\* C28: after every step, no address has more than 10 accepted attempts in
\* any 60-second window; an attempt made while 10 accepted attempts of its
\* address lie in the preceding 60 seconds is rejected with an error and
\* recorded nowhere, and any other attempt is accepted and recorded.
RateLimited ==
  [][/\ \A ip \in DOMAIN connectionAttempts' : \A from \in Times :
          Cardinality(InWindow(connectionAttempts'[ip], from)) <= MaxAttempts
     /\ last'.cmd = "connection-attempt" => \A ip \in {last'.ip} :
          Attempts(ip) =>
            IF Cardinality(Preceding(Accepted(ip), now)) >= MaxAttempts
            THEN /\ res'.next = "error"
                 /\ \A a \in Addresses : Accepted(a)' = Accepted(a)
            ELSE /\ res'.next = "ok"
                 /\ Accepted(ip)' = Recent(Accepted(ip), now) \o << now >>
                 /\ \A a \in Addresses \ {ip} : Accepted(a)' = Accepted(a)
  ]_vars

\* An attempt has been rejected while the address had 10 accepted attempts,
\* and an address is accepted again exactly 60 s after ten attempts that
\* were followed by rejected ones.
RateLimitedSeen ==
  /\ last.cmd = "connection-attempt"
  /\ res.next = "error"
  /\ Len(Accepted(last.ip)) = MaxAttempts
AcceptedAgainSeen ==
  /\ last.cmd = "connection-attempt"
  /\ res.next = "ok"
  /\ now = WindowMs
  /\ Accepted(last.ip) = << now >>

\* --------------------------------------------- claims: room tokens ----
Genuine(tok) == tok.payload = tok.issued /\ tok.signature.key = secretKey
AgeSeconds(tok) == Seconds(now) - Seconds(tok.issued.timestamp)
AgeMs(tok) == now - tok.issued.timestamp

TokenAlteredRefusedSeen ==
  /\ last.cmd = "verifyRoomToken"
  /\ ~res.verified
  /\ token.payload # token.issued
  /\ token.signature.key = secretKey
  /\ AgeMs(token) = 0
TokenForgedRefusedSeen ==
  /\ last.cmd = "verifyRoomToken"
  /\ ~res.verified
  /\ token.payload = token.issued
  /\ token.signature.key = OtherKey
  /\ AgeMs(token) = 0
TokenExpiredRefusedSeen ==
  /\ last.cmd = "verifyRoomToken"
  /\ ~res.verified
  /\ Genuine(token)
  /\ AgeMs(token) > DayMs

\* ----------------------------------------- claims: display strings ----
MetaChars == {"<", ">", "\"", "'", "/"}
Escaped(text) == \A i \in DOMAIN text : text[i] \notin MetaChars

\* C30: in every user-joined, chat-message and typing event that goes to a
\* connection other than the sender's, the user names and the message text
\* carry none of the characters < > " ' / .
DisplayStringsEscaped ==
  [][\A i \in DOMAIN out' :
       out'[i].to \ {last'.s} # {} =>
         /\ out'[i].ev = "user-joined" =>
              /\ Escaped(out'[i].data.user.name)
              /\ \A k \in DOMAIN out'[i].data.users : Escaped(out'[i].data.users[k].name)
         /\ out'[i].ev = "chat-message" =>
              /\ Escaped(out'[i].data.user)
              /\ Escaped(out'[i].data.message)
         /\ out'[i].ev = "typing" => Escaped(out'[i].data.userName)
  ]_vars

\* ------------------------------------------ claims: public room info ----
SameIdText(a, b) ==
  /\ Len(a) = Len(b)
  /\ \A i \in DOMAIN a : ToUpperCase(a[i]) = ToUpperCase(b[i])
PublicFields ==
  {"id", "name", "userCount", "maxUsers", "hasVideo", "isPrivate", "qualitySettings"}
AnyPasswords == {"", hashPassword("pw"), hashPassword("pw2"), "pw"}
InfoAsked == last.cmd = "GET /api/room/:roomId/info"

\* C31: the room info route answers 404 when there is no room or the asked id
\* is not the live room's id (letter case aside); otherwise it answers with a
\* projection that has no password field and that is the same for every
\* password the room could have.
InfoProjection ==
  [][last'.cmd = "GET /api/room/:roomId/info" =>
       IF room = NoRoom \/ ~SameIdText(last'.roomId, room.id)
       THEN res'.status = 404
       ELSE /\ res'.status = 200
            /\ DOMAIN res'.body = PublicFields
            /\ res'.body.id = room.id
            /\ res'.body.userCount = Len(room.users)
            /\ \A pw \in AnyPasswords :
                 getRoomInfoOf([room EXCEPT !.password = pw], last'.roomId) = res'.body
  ]_vars
InfoProjectionSeen ==
  /\ InfoAsked /\ res.status = 200
  /\ room # NoRoom /\ room.password = hashPassword("pw2")
  /\ res.body.hasVideo /\ res.body.userCount = 2
InfoLowerCaseSeen ==
  /\ InfoAsked /\ res.status = 200
  /\ room # NoRoom /\ last.roomId # room.id
InfoNotFoundSeen ==
  /\ InfoAsked /\ res.status = 404 /\ room # NoRoom

\* ------------------------------------------------ claims: admin flag ----
\* C32: in every reachable state, a member's isAdmin flag is true exactly
\* when the room's admin reference is that member's id.
AdminFlagAgrees ==
  room # NoRoom =>
    \A i \in DOMAIN room.users :
      room.users[i].isAdmin <=> (room.admin = room.users[i].id)

\* ------------------------------------- claims: late resolver overwrite ----
\* The latest step was a load-video of a file or a direct URL, accepted from
\* the admin while a platform resolution requested earlier is still running.
LoadedWhileResolving ==
  /\ last.cmd = "load-video"
  /\ Len(out) = 1 /\ out[1].ev = "video-loaded"
  /\ jobs # << >>

\* C33: when a video has just been loaded by a later request and the earlier
\* platform resolution then completes, leaving no resolution in flight, the
\* room's videoState is still the one of the later request.
LateResolutionKeepsLaterVideo ==
  [][(LoadedWhileResolving /\ last'.cmd = "spawn-close" /\ jobs' = << >>)
       => room'.videoState = room.videoState]_vars

\* ---------------------------------------- claims: one terminal outcome ----
SpawnSteps == {"spawn-error", "spawn-close"}
TerminalOutcome(events) ==
  \E i \in DOMAIN events :
    events[i].ev \in {"error", "video-loaded"} /\ events[i].to # {}

\* C34: a resolver call that has produced its outcome (a video-loaded
\* broadcast, or an error event to the requester) produces no second one: when
\* a process of the call reported in the latest step, with an outcome, and
\* another report of the same call is handled next, that step emits neither
\* an error nor video-loaded.
OneTerminalOutcome ==
  [][(/\ last.cmd \in SpawnSteps /\ ~last.ended /\ TerminalOutcome(out)
      /\ last'.cmd \in SpawnSteps /\ last'.job = last.job)
       => ~TerminalOutcome(out')]_vars

\* ------------------------------------------- claims: resolver liveness ----
\* A platform load-video has just been accepted from the admin.
PlatformLoadAccepted ==
  /\ last.cmd = "load-video"
  /\ Len(out) >= 1 /\ out[1].ev = "processing-video"
\* A report of a resolver process has just been handled with an outcome:
\* video-loaded to the room, or an error to the requester (if the requester
\* is still connected).
OutcomeEmitted ==
  /\ last.cmd \in SpawnSteps
  /\ \E i \in DOMAIN out :
       \/ out[i].ev = "video-loaded"
       \/ out[i].ev = "error" /\ (out[i].to = {last.s} \/ last.s \in closed)

\* C35: every platform load-video accepted from the admin is eventually
\* followed by a video-loaded broadcast or an error event to the requester,
\* when every spawned resolver process eventually reports 'error' or 'close'.
PlatformLoadAnswered == PlatformLoadAccepted ~> OutcomeEmitted
PlatformLoadAnsweredSeen ==
  /\ OutcomeEmitted
  /\ last.s \notin closed
  /\ \E i \in DOMAIN out : out[i].ev = "error" /\ out[i].data = NotInstalledMsg

\* ------------------------------------------------- claims: clear-video ----
\* C36: after a clear-video from the admin is handled, the room's videoState
\* has no video URL and no local path.
ClearVideoEmpties ==
  [][last'.cmd = "clear-video" => \A s \in {Sender} :
       (HasRoom /\ room.admin = s /\ Clears(s)) =>
         /\ room'.videoState.videoUrl = Null
         /\ "localPath" \notin DOMAIN room'.videoState
  ]_vars

\* ------------------------------------------- claims: every 206 answer ----
\* C37: every 206 answer of the stream route names a range start-end with
\* 0 <= start <= end <= FileSize-1 in Content-Range, and its Content-Length
\* is end-start+1 (so at most FileSize), whatever the Range header was.
WithinFile ==
  {[start |-> start, end |-> end] : start, end \in 0..(FileSize - 1)}
RangeWithinFile ==
  [][(last'.cmd = "GET /stream/:roomId/video" /\ res'.status = 206) =>
       \E r \in WithinFile :
         /\ r.start <= r.end
         /\ res'.head.ContentRange = ContentRangeText(r.start, r.end)
         /\ res'.head.ContentLength = (r.end - r.start) + 1
  ]_vars
\* The headers with no start or no number are answered 500, never 206.
NoStartRefused ==
  [][(last'.cmd = "GET /stream/:roomId/video" /\ ServesFile /\ room.id = last'.roomId
        /\ last'.range \in {SuffixRangeHeader(5), BytesEq \o << "x", "-", "y" >>,
                            << "0", "-", "x" >>})
       => res'.status = 500]_vars

\* ----------------------------------------- claims: who is promoted ----
\* The members' ids in the order of the users map.
IdsOf(us) == [i \in DOMAIN us |-> us[i].id]
Others(us, s) == SelectSeq(IdsOf(us), LAMBDA id : id # s)

\* C38: the users map lists the members in the order of their first join (a
\* join-room of a new member adds it at the end, a join-room of a member
\* moves nobody, a disconnect removes the leaver alone), and when the admin
\* disconnects while others remain, the first of the others in that order
\* becomes the admin and is the newAdmin of user-left.
EarliestPromoted ==
  [][/\ (last'.cmd = "join-room" /\ HasRoom) =>
          /\ IdsOf(room'.users) \in {IdsOf(room.users), Append(IdsOf(room.users), Sender)}
          /\ Sender \in UserIds => IdsOf(room'.users) = IdsOf(room.users)
     /\ (last'.cmd = "disconnect" /\ HasRoom) =>
          /\ IdsOf(room'.users) = Others(room.users, Sender)
          /\ (room.admin = Sender /\ Others(room.users, Sender) # << >>) =>
               /\ room'.admin = Others(room.users, Sender)[1]
               /\ Len(out') = 1
               /\ "newAdmin" \in DOMAIN out'[1].data
               /\ out'[1].data.newAdmin.id = Others(room.users, Sender)[1]
  ]_vars
\* C38 witness: the admin has left two members behind and the first of them
\* in the map's order is the new admin.
EarliestPromotedSeen ==
  /\ last.cmd = "disconnect"
  /\ HasRoom /\ Len(room.users) = 2
  /\ Len(out) = 1 /\ out[1].ev = "user-left"
  /\ "newAdmin" \in DOMAIN out[1].data
  /\ out[1].data.newAdmin.id = room.users[1].id
  /\ room.admin = room.users[1].id

\* -------------------------------------------- claims: start-host-mode ----
\* C39: a start-host-mode request handled while a start is in progress is
\* answered with failure and starts no server; one handled while the server
\* runs is answered with the existing server info and starts no server; at
\* most one start is in progress at a time; and isStartingServer is false
\* whenever no start is in progress.
OneStartAtATime ==
  [][~exited' =>
       /\ (last'.cmd = "start-host-mode" /\ Starting # {}) =>
            /\ "success" \in DOMAIN res' /\ ~res'.success
            /\ servers' = servers
       /\ (last'.cmd = "start-host-mode" /\ Starting = {} /\ appState.isServerRunning) =>
            /\ "alreadyRunning" \in DOMAIN res' /\ res'.success
            /\ res'.serverInfo = appState.serverInfo
            /\ servers' = servers
       /\ Cardinality(Starting') <= 1
       /\ Starting' = {} => ~appState'.isStartingServer
  ]_vars
\* The same while the flag still tells of the start in progress (no fault
\* handler has reset it).
StartRefusedWhileFlagged ==
  [][(last'.cmd = "start-host-mode" /\ appState.isStartingServer
        /\ ~appState.isServerRunning) =>
       /\ "success" \in DOMAIN res' /\ ~res'.success
       /\ servers' = servers
  ]_vars

\* --------------------------------------------------- claims: the stop ----
StopHandled == last.cmd \in {"stop-server", "window-all-closed", "before-quit"}
Stopped ==
  /\ \A i \in DOMAIN servers : servers[i].st \notin {"starting", "listening"}
  /\ ~appState.isServerRunning

\* C40: after a stop has been handled, eventually no server of the process is
\* listening or about to listen and isServerRunning is false, also when a
\* start was in progress at the stop.
StopStops == StopHandled ~> Stopped
====
